---------------------------- MODULE Spec2Model ----------------------------
(***************************************************************************)
(* A model of the tiny-physics-engine World: bodies, sweep-and-prune broad *)
(* phase, narrow phase, contact constraints with a warm-start cache, the   *)
(* sequential-impulse solver and the World::step pipeline.                 *)
(*                                                                         *)
(* f32 values are fixed-point integers with SCALE units per 1.0, plus the  *)
(* three non-finite values NaN, +inf and -inf.  Vec2 is a pair <<x, y>>.   *)
(* Vec indices in the source are 0-based; sequences here are 1-based, and  *)
(* every body index stored in a pair, a manifold, a constraint or a key is *)
(* the source's 0-based index.                                             *)
(***************************************************************************)
EXTENDS Integers, Sequences, FiniteSets, TLC

VARIABLES
    entities,      \* World.entities: sequence of bodies
    forces,        \* World.forces: sequence of force generators
    gravity,       \* World.gravity
    integrator,    \* World.integrator
    params,        \* ConstraintSolver.params
    frames,        \* the generator lists held by the step calls in progress, innermost last
    manifolds,     \* World.manifolds
    pairs,         \* the broad-phase result held by World::step
    constraints,   \* ConstraintSolver.constraints
    cache,         \* ConstraintSolver.cache: map from key to <<jn, jt>>
    solver_dt,     \* ConstraintSolver.dt
    last_dt,       \* ConstraintSolver.last_dt
    delta_pos,     \* ConstraintSolver.delta_pos
    delta_angle,   \* ConstraintSolver.delta_angle
    pc,            \* position inside World::step ("idle" between calls, "panicked" after a panic)
    dt,            \* the dt argument of the running / last step call
    iter,          \* solver sweeps still to run in ConstraintSolver::solve
    entry,         \* history: the world as it was when step was last called
    placed,        \* history: every body as the caller last set it (add or edit)
    prev,          \* history: constraints and last_dt seen by the last build
    nsteps,        \* history: number of step calls made
    nedits         \* history: number of caller edits made

vars == <<entities, forces, gravity, integrator, params, frames, manifolds, pairs,
          constraints, cache, solver_dt, last_dt, delta_pos, delta_angle, pc, dt, iter, entry,
          placed, prev, nsteps, nedits>>

---------------------------------------------------------------------------
(* f32 arithmetic *)

SCALE == 1000
NaN == 2000000001
PosInf == 2000000000
NegInf == -2000000000

IsInf(a) == a = PosInf \/ a = NegInf
IsFinite(a) == a # NaN /\ ~IsInf(a)

Sign(a) == IF a > 0 THEN 1 ELSE IF a < 0 THEN -1 ELSE 0

\* n / d rounded to the nearest integer, halves away from zero (d > 0)
RoundDiv(n, d) ==
    IF n >= 0 THEN (n + d \div 2) \div d ELSE -((-n + d \div 2) \div d)

FNeg(a) == IF a = NaN THEN NaN ELSE -a

FAdd(a, b) ==
    IF a = NaN \/ b = NaN THEN NaN
    ELSE IF IsInf(a) THEN (IF IsInf(b) /\ b # a THEN NaN ELSE a)
    ELSE IF IsInf(b) THEN b
    ELSE a + b

FSub(a, b) == FAdd(a, FNeg(b))

FMul(a, b) ==
    IF a = NaN \/ b = NaN THEN NaN
    ELSE IF IsInf(a) \/ IsInf(b)
         THEN (IF a = 0 \/ b = 0 THEN NaN
               ELSE IF Sign(a) * Sign(b) > 0 THEN PosInf ELSE NegInf)
    ELSE RoundDiv(a * b, SCALE)

FDiv(a, b) ==
    IF a = NaN \/ b = NaN THEN NaN
    ELSE IF IsInf(a)
         THEN (IF IsInf(b) THEN NaN
               ELSE IF Sign(a) * (IF b < 0 THEN -1 ELSE 1) > 0 THEN PosInf ELSE NegInf)
    ELSE IF IsInf(b) THEN 0
    ELSE IF b = 0
         THEN (IF a = 0 THEN NaN ELSE IF a > 0 THEN PosInf ELSE NegInf)
    ELSE Sign(b) * RoundDiv(a * SCALE, Sign(b) * b)

\* comparisons: every comparison with NaN is false
FLt(a, b) == a # NaN /\ b # NaN /\ a < b
FLe(a, b) == a # NaN /\ b # NaN /\ a <= b
FGt(a, b) == FLt(b, a)
FGe(a, b) == FLe(b, a)

\* f32::max / f32::min return the other operand when one is NaN
FMax(a, b) == IF a = NaN THEN b ELSE IF b = NaN THEN a ELSE IF a >= b THEN a ELSE b
FMin(a, b) == IF a = NaN THEN b ELSE IF b = NaN THEN a ELSE IF a <= b THEN a ELSE b
FAbs(a) == IF a = NaN THEN NaN ELSE IF a < 0 THEN -a ELSE a

\* f32::clamp panics unless lo <= hi
ClampPanics(lo, hi) == ~FLe(lo, hi)
FClamp(x, lo, hi) ==
    IF x = NaN THEN NaN ELSE IF x < lo THEN lo ELSE IF x > hi THEN hi ELSE x

RECURSIVE ISqrtBetween(_, _, _)
ISqrtBetween(n, lo, hi) ==
    IF lo >= hi THEN lo
    ELSE LET mid == (lo + hi + 1) \div 2
         IN  IF mid * mid <= n THEN ISqrtBetween(n, mid, hi)
             ELSE ISqrtBetween(n, lo, mid - 1)

FSqrt(a) ==
    IF a = NaN \/ a < 0 THEN NaN
    ELSE IF a = PosInf THEN PosInf
    ELSE ISqrtBetween(a * SCALE, 0, 46340)

\* f32::round() as i32 of (a / cell): NaN casts to 0, the cast saturates
RoundCell(a, cell) ==
    IF a = NaN THEN 0
    ELSE IF a = PosInf THEN 2147483647
    ELSE IF a = NegInf THEN -2147483647 - 1
    ELSE RoundDiv(a, cell)

\* sin and cos: reduce to [-pi/2, pi/2], then the series to the x^7 term
ReduceAngle(a) ==
    LET m == a % 6283
        w == IF m > 3142 THEN m - 6283 ELSE m
    IN  IF w > 1571 THEN 3142 - w ELSE IF w < -1571 THEN -3142 - w ELSE w

SinSeries(x) ==
    LET x2 == RoundDiv(x * x, SCALE)
        t3 == RoundDiv(RoundDiv(x * x2, SCALE), 6)
        t5 == RoundDiv(RoundDiv(t3 * x2, SCALE), 20)
        t7 == RoundDiv(RoundDiv(t5 * x2, SCALE), 42)
    IN  x - t3 + t5 - t7

FSin(a) == IF ~IsFinite(a) THEN NaN ELSE SinSeries(ReduceAngle(a))
FCos(a) == IF ~IsFinite(a) THEN NaN ELSE SinSeries(ReduceAngle(a + 1571))

---------------------------------------------------------------------------
(* Vec2 and Mat2 *)

Vec2(x, y) == <<x, y>>
VZero == <<0, 0>>
VAdd(u, v) == <<FAdd(u[1], v[1]), FAdd(u[2], v[2])>>
VSub(u, v) == <<FSub(u[1], v[1]), FSub(u[2], v[2])>>
VScale(v, s) == <<FMul(v[1], s), FMul(v[2], s)>>
VDivS(v, s) == <<FDiv(v[1], s), FDiv(v[2], s)>>
VNeg(v) == <<FNeg(v[1]), FNeg(v[2])>>
VDot(u, v) == FAdd(FMul(u[1], v[1]), FMul(u[2], v[2]))
VCross(u, v) == FSub(FMul(u[1], v[2]), FMul(u[2], v[1]))
VPerp(v) == <<FNeg(v[2]), v[1]>>
VLengthSquared(v) == VDot(v, v)
VLength(v) == FSqrt(VLengthSquared(v))

\* Mat2 is <<m00, m01, m10, m11>>
Mat2_rotation(radians) ==
    <<FCos(radians), FNeg(FSin(radians)), FSin(radians), FCos(radians)>>
Mat2_transpose(m) == <<m[1], m[3], m[2], m[4]>>
Mat2_mul_vec2(m, v) ==
    <<FAdd(FMul(m[1], v[1]), FMul(m[2], v[2])),
      FAdd(FMul(m[3], v[1]), FMul(m[4], v[2]))>>
Mat2_mul_mat2(m, r) ==
    <<FAdd(FMul(m[1], r[1]), FMul(m[2], r[3])),
      FAdd(FMul(m[1], r[2]), FMul(m[2], r[4])),
      FAdd(FMul(m[3], r[1]), FMul(m[4], r[3])),
      FAdd(FMul(m[3], r[2]), FMul(m[4], r[4]))>>

---------------------------------------------------------------------------
(* Shapes and bodies *)

NoCollider == [tag |-> "None", radius |-> 0, half_extents |-> VZero]
Circle(radius) == [tag |-> "Circle", radius |-> radius, half_extents |-> VZero]
Box(half_extents) == [tag |-> "Box", radius |-> 0, half_extents |-> half_extents]

Aabb_new(min, max) == [min |-> min, max |-> max]

Aabb_overlaps(self, other) ==
    ~(\/ FLt(self.max[1], other.min[1])
      \/ FGt(self.min[1], other.max[1])
      \/ FLt(self.max[2], other.min[2])
      \/ FGt(self.min[2], other.max[2]))

Collider2D_inertia_about_center(col, mass) ==
    IF FLe(mass, 0) THEN 0
    ELSE IF col.tag = "Circle"
         THEN FMul(FMul(FMul(500, mass), col.radius), col.radius)
    ELSE LET w == FMul(col.half_extents[1], 2 * SCALE)
             h == FMul(col.half_extents[2], 2 * SCALE)
         IN  FDiv(FMul(mass, FAdd(FMul(w, w), FMul(h, h))), 12 * SCALE)

\* Aabb::new(pos - ext, pos + ext)
Aabb_around(pos, ext) == Aabb_new(VSub(pos, ext), VAdd(pos, ext))

Collider2D_aabb(col, pos, angle) ==
    IF col.tag = "Circle"
    THEN Aabb_around(pos, Vec2(col.radius, col.radius))
    ELSE LET c == FAbs(FCos(angle))
             s == FAbs(FSin(angle))
         IN  Aabb_around(pos,
                 Vec2(FAdd(FMul(c, col.half_extents[1]), FMul(s, col.half_extents[2])),
                      FAdd(FMul(s, col.half_extents[1]), FMul(c, col.half_extents[2]))))

RigidBody_new(pos, angle, inv_mass, inv_inertia) ==
    [kind |-> "RigidBody", pos |-> pos, vel |-> VZero, force |-> VZero,
     inv_mass |-> inv_mass, angle |-> angle, omega |-> 0, torque |-> 0,
     inv_inertia |-> inv_inertia, collider |-> NoCollider]

\* a box whose inverse mass and inertia are taken without looking at the sign
RigidBody_box_unguarded(pos, angle, mass, width, height) ==
    LET inv_mass == FDiv(SCALE, mass)
        collider == Box(Vec2(FMul(width, 500), FMul(height, 500)))
        inertia == FDiv(FMul(mass, FAdd(FMul(width, width), FMul(height, height))),
                        12 * SCALE)
        inv_inertia == FDiv(SCALE, inertia)
    IN  [kind |-> "RigidBody", pos |-> pos, vel |-> VZero, force |-> VZero,
         inv_mass |-> inv_mass, angle |-> angle, omega |-> 0, torque |-> 0,
         inv_inertia |-> inv_inertia, collider |-> collider]

RigidBody_box_xy(pos, angle, mass, width, height) ==
    LET inv_mass == IF FGt(mass, 0) THEN FDiv(SCALE, mass) ELSE 0
        collider == Box(Vec2(FMul(width, 500), FMul(height, 500)))
        inertia == Collider2D_inertia_about_center(collider, mass)
        inv_inertia == IF FGt(inertia, 0) THEN FDiv(SCALE, inertia) ELSE 0
    IN  [kind |-> "RigidBody", pos |-> pos, vel |-> VZero, force |-> VZero,
         inv_mass |-> inv_mass, angle |-> angle, omega |-> 0, torque |-> 0,
         inv_inertia |-> inv_inertia, collider |-> collider]

RigidBody_circle(pos, angle, mass, radius) ==
    LET inv_mass == IF FGt(mass, 0) THEN FDiv(SCALE, mass) ELSE 0
        collider == Circle(radius)
        inertia == Collider2D_inertia_about_center(collider, mass)
        inv_inertia == IF FGt(inertia, 0) THEN FDiv(SCALE, inertia) ELSE 0
    IN  [kind |-> "RigidBody", pos |-> pos, vel |-> VZero, force |-> VZero,
         inv_mass |-> inv_mass, angle |-> angle, omega |-> 0, torque |-> 0,
         inv_inertia |-> inv_inertia, collider |-> collider]

Particle_new(pos, vel, inv_mass) ==
    [kind |-> "Particle", pos |-> pos, vel |-> vel, force |-> VZero,
     inv_mass |-> inv_mass, angle |-> 0, omega |-> 0, torque |-> 0,
     inv_inertia |-> 0, collider |-> NoCollider]

\* PhysicalEntity::collider: a RigidBody's own, none for a Particle
Collider(e) == IF e.kind = "RigidBody" THEN e.collider ELSE NoCollider

---------------------------------------------------------------------------
(* Broad phase: sweep and prune *)

SPECULATIVE_DISTANCE == 50

\* aabb.min - ext, aabb.max + ext
Aabb_expand(aabb, ext) == Aabb_new(VSub(aabb.min, ext), VAdd(aabb.max, ext))

entity_aabb(e) ==
    IF e.kind = "RigidBody"
    THEN IF e.collider.tag # "None"
         THEN Aabb_expand(Collider2D_aabb(e.collider, e.pos, e.angle),
                          Vec2(SPECULATIVE_DISTANCE, SPECULATIVE_DISTANCE))
         ELSE Aabb_around(e.pos, Vec2(50, 50))
    ELSE IF e.kind = "Particle"
    THEN Aabb_expand(Collider2D_aabb(Circle(50), e.pos, e.angle),
                     Vec2(SPECULATIVE_DISTANCE, SPECULATIVE_DISTANCE))
    ELSE Aabb_around(e.pos, Vec2(10, 10))

\* entries.sort_by(partial_cmp(min.x).unwrap_or(Equal)): a stable sort, an
\* insertion sort for slices this short; an entry moves in front of exactly
\* those that compare Greater, and a NaN compares Equal to everything
RECURSIVE SortInsert(_, _)
SortInsert(sorted, e) ==
    IF sorted = <<>> THEN <<e>>
    ELSE IF FGt(sorted[Len(sorted)].aabb.min[1], e.aabb.min[1])
    THEN Append(SortInsert(SubSeq(sorted, 1, Len(sorted) - 1), e), sorted[Len(sorted)])
    ELSE Append(sorted, e)

RECURSIVE SortEntries(_, _)
SortEntries(entries, n) ==
    IF n = 0 THEN <<>> ELSE SortInsert(SortEntries(entries, n - 1), entries[n])

\* an eviction that also drops entries that touch the current one
RetainStrict(active, cur) ==
    SelectSeq(active, LAMBDA e : FGt(e.aabb.max[1], cur.aabb.min[1]))

\* active.retain(|e| e.aabb.max.x >= cur.aabb.min.x)
Retain(active, cur) ==
    SelectSeq(active, LAMBDA e : FGe(e.aabb.max[1], cur.aabb.min[1]))

\* pairs emitted in sweep order, active entry first
RECURSIVE EmitPairsSweepOrder(_, _, _)
EmitPairsSweepOrder(active, cur, k) ==
    IF k > Len(active) THEN <<>>
    ELSE (IF Aabb_overlaps(active[k].aabb, cur.aabb)
          THEN <<<<active[k].index, cur.index>>>>
          ELSE <<>>)
         \o EmitPairsSweepOrder(active, cur, k + 1)

\* the pairs one entry adds, in the order of the active list
RECURSIVE EmitPairs(_, _, _)
EmitPairs(active, cur, k) ==
    IF k > Len(active) THEN <<>>
    ELSE (IF Aabb_overlaps(active[k].aabb, cur.aabb)
          THEN <<IF active[k].index < cur.index
                 THEN <<active[k].index, cur.index>>
                 ELSE <<cur.index, active[k].index>>>>
          ELSE <<>>)
         \o EmitPairs(active, cur, k + 1)

RECURSIVE Sweep(_, _, _, _)
Sweep(sorted, k, active, out) ==
    IF k > Len(sorted) THEN out
    ELSE Sweep(sorted, k + 1, Append(Retain(active, sorted[k]), sorted[k]),
               out \o EmitPairs(Retain(active, sorted[k]), sorted[k], 1))

detect_sap(ents) ==
    Sweep(SortEntries([i \in 1..Len(ents) |->
                          [index |-> i - 1, aabb |-> entity_aabb(ents[i])]],
                      Len(ents)),
          1, <<>>, <<>>)

---------------------------------------------------------------------------
(* Narrow phase *)

None == [some |-> FALSE, normal |-> VZero, points |-> <<>>]
Some(normal, points) == [some |-> TRUE, normal |-> normal, points |-> points]
ContactPoint(point, penetration) == [point |-> point, penetration |-> penetration]

\* Vec2::try_normalize: no direction for a vector of (near) zero length
VTryNormalize(v) ==
    IF FGt(VLength(v), 0) THEN Some(VDivS(v, VLength(v)), <<>>) ELSE None

\* circle_circle::detect from the distance test on, n = delta.try_normalize()
circle_circle_contact(center_a, radius_a, radius_sum, dist_sq, n) ==
    LET normal == IF n.some THEN n.normal ELSE Vec2(SCALE, 0)
        penetration == IF n.some THEN FSub(radius_sum, FSqrt(dist_sq)) ELSE radius_sum
        contact_point == VAdd(center_a, VScale(normal, radius_a))
    IN  IF FGt(dist_sq, FMul(radius_sum, radius_sum)) THEN None
        ELSE Some(normal, <<ContactPoint(contact_point, penetration)>>)

circle_circle_detect(center_a, radius_a, center_b, radius_b) ==
    circle_circle_contact(center_a, radius_a, FAdd(radius_a, radius_b),
                          VLengthSquared(VSub(center_b, center_a)),
                          VTryNormalize(VSub(center_b, center_a)))

\* f32::signum: 1.0 for +0.0 and above, -1.0 below
Signum(a) == IF a = NaN THEN NaN ELSE IF a >= 0 THEN SCALE ELSE -SCALE

\* box_circle::detect in the box's frame: <<normal_local, contact_local, penetration>>
box_circle_local(half_extents, radius, delta_local, closest_local, dist_sq) ==
    LET dist == FSqrt(dist_sq)
        dx == FSub(half_extents[1], FAbs(delta_local[1]))
        dy == FSub(half_extents[2], FAbs(delta_local[2]))
        sign_x == Signum(delta_local[1])
        sign_y == Signum(delta_local[2])
    IN  IF FGt(dist_sq, 0)
        THEN <<VDivS(VSub(delta_local, closest_local), dist), closest_local,
               FSub(radius, dist)>>
        ELSE IF FLt(dx, dy)
        THEN <<Vec2(sign_x, 0),
               Vec2(FMul(sign_x, half_extents[1]), delta_local[2]),
               FAdd(radius, dx)>>
        ELSE <<Vec2(0, sign_y),
               Vec2(delta_local[1], FMul(sign_y, half_extents[2])),
               FAdd(radius, dy)>>

\* box_circle::detect, the contact taken back to world space
box_circle_world(box_center, rot, res) ==
    Some(Mat2_mul_vec2(rot, res[1]),
         <<ContactPoint(VAdd(Mat2_mul_vec2(rot, res[2]), box_center), res[3])>>)

\* box_circle::detect from closest_local on
box_circle_closest(box_center, rot, half_extents, radius, delta_local, closest_local) ==
    IF FGt(VLengthSquared(VSub(delta_local, closest_local)), FMul(radius, radius))
    THEN None
    ELSE box_circle_world(box_center, rot,
                          box_circle_local(half_extents, radius, delta_local, closest_local,
                                           VLengthSquared(VSub(delta_local, closest_local))))

\* box_circle::detect from delta_local on
box_circle_frame(box_center, rot, half_extents, radius, delta_local) ==
    box_circle_closest(box_center, rot, half_extents, radius, delta_local,
        Vec2(FClamp(delta_local[1], FNeg(half_extents[1]), half_extents[1]),
             FClamp(delta_local[2], FNeg(half_extents[2]), half_extents[2])))

box_circle_detect(box_center, box_angle, half_extents, circle_center, radius) ==
    box_circle_frame(box_center, Mat2_rotation(box_angle), half_extents, radius,
                     Mat2_mul_vec2(Mat2_transpose(Mat2_rotation(box_angle)),
                                   VSub(circle_center, box_center)))


clip_segment_to_line(v_in, normal, offset) ==
    IF Len(v_in) < 2 THEN <<>>
    ELSE LET d0 == FSub(VDot(normal, v_in[1]), offset)
             d1 == FSub(VDot(normal, v_in[2]), offset)
         IN  IF FLe(d0, 0) /\ FLe(d1, 0) THEN <<v_in[1], v_in[2]>>
             ELSE IF FGt(d0, 0) /\ FGt(d1, 0) THEN <<>>
             ELSE IF FLe(d0, 0)
             THEN <<v_in[1],
                    VAdd(v_in[1], VScale(VSub(v_in[2], v_in[1]), FDiv(d0, FSub(d0, d1))))>>
             ELSE <<VAdd(v_in[1], VScale(VSub(v_in[2], v_in[1]), FDiv(d0, FSub(d0, d1)))),
                    v_in[2]>>

\* compute_incident_edge: the face taken to world space
edge_to_world(center, rot, v) ==
    <<VAdd(Mat2_mul_vec2(rot, v[1]), center), VAdd(Mat2_mul_vec2(rot, v[2]), center)>>

compute_incident_edge(center, rot, half_extents, ref_normal) ==
    LET local_n == Mat2_mul_vec2(Mat2_transpose(rot), ref_normal)
        hx == half_extents[1]
        hy == half_extents[2]
    IN  edge_to_world(center, rot,
            IF FGt(FAbs(local_n[1]), FAbs(local_n[2]))
            THEN IF FGt(local_n[1], 0)
                 THEN <<Vec2(FNeg(hx), hy), Vec2(FNeg(hx), FNeg(hy))>>
                 ELSE <<Vec2(hx, FNeg(hy)), Vec2(hx, hy)>>
            ELSE IF FGt(local_n[2], 0)
                 THEN <<Vec2(hx, FNeg(hy)), Vec2(FNeg(hx), FNeg(hy))>>
                 ELSE <<Vec2(FNeg(hx), hy), Vec2(hx, hy)>>)


\* the fold over axis_check: the first axis of greatest separation
BestAxis(seps) ==
    LET step(acc, k) == IF FGt(seps[k], acc[2]) THEN <<k - 1, seps[k]>> ELSE acc
    IN  step(step(step(step(<<0, NegInf>>, 1), 2), 3), 4)[1]

\* contacts kept behind the reference face, in clip order
KeptContacts(clip, ref_normal_local, front_offset, ref_rot, ref_center) ==
    LET sep(v) == FSub(VDot(ref_normal_local, v), front_offset)
        cp(v) == ContactPoint(VAdd(Mat2_mul_vec2(ref_rot, v), ref_center), FNeg(sep(v)))
    IN  (IF FLe(sep(clip[1]), 0) THEN <<cp(clip[1])>> ELSE <<>>)
        \o (IF FLe(sep(clip[2]), 0) THEN <<cp(clip[2])>> ELSE <<>>)

\* box_box::detect: the result once the contacts are known
box_box_result(ref_poly_idx, ref_normal, contacts) ==
    IF contacts = <<>> THEN None
    ELSE Some(IF ref_poly_idx = 0 THEN ref_normal ELSE VNeg(ref_normal), contacts)

\* box_box::detect from the second clip on
box_box_clip2(ref_poly_idx, ref_normal, ref_center, ref_rot, ref_normal_local, front_offset, clip2) ==
    IF Len(clip2) < 2 THEN None
    ELSE box_box_result(ref_poly_idx, ref_normal,
                        KeptContacts(clip2, ref_normal_local, front_offset, ref_rot,
                                     ref_center))

\* box_box::detect from the first clip on
box_box_clip1(ref_poly_idx, ref_normal, ref_center, ref_rot, ref_normal_local, front_offset, side_n2, offset1, clip1) ==
    IF Len(clip1) < 2 THEN None
    ELSE box_box_clip2(ref_poly_idx, ref_normal, ref_center, ref_rot, ref_normal_local,
                       front_offset, clip_segment_to_line(clip1, side_n2, offset1))

\* box_box::detect: the side planes of the reference face
box_box_sides(ref_poly_idx, ref_normal, ref_center, ref_rot, ref_h, incident_edge_local, ref_normal_local) ==
    LET x_face == FGt(FAbs(ref_normal_local[1]), FAbs(ref_normal_local[2]))
        side_n1 == IF x_face THEN Vec2(0, SCALE) ELSE Vec2(SCALE, 0)
        side_n2 == IF x_face THEN Vec2(0, -SCALE) ELSE Vec2(-SCALE, 0)
        offset1 == IF x_face THEN ref_h[2] ELSE ref_h[1]
        front_offset == IF x_face THEN ref_h[1] ELSE ref_h[2]
    IN  box_box_clip1(ref_poly_idx, ref_normal, ref_center, ref_rot, ref_normal_local,
                      front_offset, side_n2, offset1,
                      clip_segment_to_line(incident_edge_local, side_n1, offset1))

\* box_box::detect: the incident edge in the reference box's frame
box_box_incident(ref_poly_idx, ref_normal, ref_center, ref_rot, ref_h, incident_edge) ==
    box_box_sides(ref_poly_idx, ref_normal, ref_center, ref_rot, ref_h,
        <<Mat2_mul_vec2(Mat2_transpose(ref_rot), VSub(incident_edge[1], ref_center)),
          Mat2_mul_vec2(Mat2_transpose(ref_rot), VSub(incident_edge[2], ref_center))>>,
        Mat2_mul_vec2(Mat2_transpose(ref_rot), ref_normal))

\* box_box::detect: reference and incident box for the reference normal
box_box_faces(center_a, rot_a, half_extents_a, center_b, rot_b, half_extents_b, ref_poly_idx, ref_normal) ==
    IF ref_poly_idx = 0
    THEN box_box_incident(0, ref_normal, center_a, rot_a, half_extents_a,
             compute_incident_edge(center_b, rot_b, half_extents_b, ref_normal))
    ELSE box_box_incident(1, ref_normal, center_b, rot_b, half_extents_b,
             compute_incident_edge(center_a, rot_a, half_extents_a, ref_normal))

\* box_box::detect: the reference normal of the axis of least penetration
box_box_reference(center_a, rot_a, half_extents_a, center_b, rot_b, half_extents_b, dp_a, dp_b, best_axis) ==
    box_box_faces(center_a, rot_a, half_extents_a, center_b, rot_b, half_extents_b,
        IF best_axis < 2 THEN 0 ELSE 1,
        IF best_axis = 0
        THEN (IF FGt(dp_a[1], 0) THEN Vec2(rot_a[1], rot_a[3])
              ELSE Vec2(FNeg(rot_a[1]), FNeg(rot_a[3])))
        ELSE IF best_axis = 1
        THEN (IF FGt(dp_a[2], 0) THEN Vec2(rot_a[2], rot_a[4])
              ELSE Vec2(FNeg(rot_a[2]), FNeg(rot_a[4])))
        ELSE IF best_axis = 2
        THEN (IF FGt(dp_b[1], 0) THEN Vec2(rot_b[1], rot_b[3])
              ELSE Vec2(FNeg(rot_b[1]), FNeg(rot_b[3])))
        ELSE (IF FGt(dp_b[2], 0) THEN Vec2(rot_b[2], rot_b[4])
              ELSE Vec2(FNeg(rot_b[2]), FNeg(rot_b[4]))))

\* box_box::detect: the separating-axis test on the four face axes
box_box_sat(center_a, rot_a, half_extents_a, center_b, rot_b, half_extents_b, dp_a, dp_b, c_ab) ==
    LET abs_c == <<FAbs(c_ab[1]), FAbs(c_ab[2]), FAbs(c_ab[3]), FAbs(c_ab[4])>>
        abs_c_t == <<FAbs(c_ab[1]), FAbs(c_ab[3]), FAbs(c_ab[2]), FAbs(c_ab[4])>>
        face_a_x == FSub(FAbs(dp_a[1]),
                         FAdd(half_extents_a[1],
                              FAdd(FMul(abs_c[1], half_extents_b[1]),
                                   FMul(abs_c[2], half_extents_b[2]))))
        face_a_y == FSub(FAbs(dp_a[2]),
                         FAdd(half_extents_a[2],
                              FAdd(FMul(abs_c[3], half_extents_b[1]),
                                   FMul(abs_c[4], half_extents_b[2]))))
        face_b_x == FSub(FAbs(dp_b[1]),
                         FAdd(half_extents_b[1],
                              FAdd(FMul(abs_c_t[1], half_extents_a[1]),
                                   FMul(abs_c_t[2], half_extents_a[2]))))
        face_b_y == FSub(FAbs(dp_b[2]),
                         FAdd(half_extents_b[2],
                              FAdd(FMul(abs_c_t[3], half_extents_a[1]),
                                   FMul(abs_c_t[4], half_extents_a[2]))))
    IN  IF FGt(face_a_x, 0) \/ FGt(face_a_y, 0) \/ FGt(face_b_x, 0) \/ FGt(face_b_y, 0)
        THEN None
        ELSE box_box_reference(center_a, rot_a, half_extents_a,
                               center_b, rot_b, half_extents_b, dp_a, dp_b,
                               BestAxis(<<face_a_x, face_a_y, face_b_x, face_b_y>>))

\* box_box::detect from the two rotations on
box_box_frames(center_a, rot_a, half_extents_a, center_b, rot_b, half_extents_b) ==
    box_box_sat(center_a, rot_a, half_extents_a, center_b, rot_b, half_extents_b,
                Mat2_mul_vec2(Mat2_transpose(rot_a), VSub(center_b, center_a)),
                Mat2_mul_vec2(Mat2_transpose(rot_b), VSub(center_b, center_a)),
                Mat2_mul_mat2(Mat2_transpose(rot_a), rot_b))

box_box_detect(center_a, angle_a, half_extents_a, center_b, angle_b, half_extents_b) ==
    box_box_frames(center_a, Mat2_rotation(angle_a), half_extents_a,
                   center_b, Mat2_rotation(angle_b), half_extents_b)


\* a manifold that records the pair in the opposite order
Manifold_swapped(a, b, normal, points) ==
    [a |-> b, b |-> a, normal |-> normal, tangent |-> VPerp(normal), points |-> points]

Manifold_new(a, b, normal, points) ==
    [a |-> a, b |-> b, normal |-> normal, tangent |-> VPerp(normal), points |-> points]

\* the Circle-Box arm: (n, pts) -> (-n, pts)
flipped(d) == IF d.some THEN Some(VNeg(d.normal), d.points) ELSE None

\* Option<Manifold>: <<>> or <<manifold>>
manifold_of(index_a, index_b, r) ==
    IF r.some THEN <<Manifold_new(index_a, index_b, r.normal, r.points)>> ELSE <<>>

\* the collider the narrow phase would use if it shared the broad phase's
\* placeholder for bodies that have none
PlaceholderCollider(e) == IF Collider(e).tag = "None" THEN Circle(50) ELSE Collider(e)

\* a narrow phase that collides the placeholder of a body without a collider
build_manifold_for_placeholder(index_a, index_b, entity_a, entity_b) ==
    LET ca == PlaceholderCollider(entity_a)
        cb == PlaceholderCollider(entity_b)
    IN  manifold_of(index_a, index_b,
            IF ca.tag = "Circle" /\ cb.tag = "Circle"
            THEN circle_circle_detect(entity_a.pos, ca.radius, entity_b.pos, cb.radius)
            ELSE IF ca.tag = "Box" /\ cb.tag = "Circle"
            THEN box_circle_detect(entity_a.pos, entity_a.angle, ca.half_extents,
                                   entity_b.pos, cb.radius)
            ELSE IF ca.tag = "Circle" /\ cb.tag = "Box"
            THEN flipped(box_circle_detect(entity_b.pos, entity_b.angle,
                                           cb.half_extents, entity_a.pos, ca.radius))
            ELSE box_box_detect(entity_a.pos, entity_a.angle, ca.half_extents,
                                entity_b.pos, entity_b.angle, cb.half_extents))

build_manifold_for_pair(index_a, index_b, entity_a, entity_b) ==
    LET ca == Collider(entity_a)
        cb == Collider(entity_b)
    IN  IF ca.tag = "None" \/ cb.tag = "None" THEN <<>>
        ELSE manifold_of(index_a, index_b,
                 IF ca.tag = "Circle" /\ cb.tag = "Circle"
                 THEN circle_circle_detect(entity_a.pos, ca.radius, entity_b.pos, cb.radius)
                 ELSE IF ca.tag = "Box" /\ cb.tag = "Circle"
                 THEN box_circle_detect(entity_a.pos, entity_a.angle, ca.half_extents,
                                        entity_b.pos, cb.radius)
                 ELSE IF ca.tag = "Circle" /\ cb.tag = "Box"
                 THEN flipped(box_circle_detect(entity_b.pos, entity_b.angle,
                                                cb.half_extents, entity_a.pos, ca.radius))
                 ELSE box_box_detect(entity_a.pos, entity_a.angle, ca.half_extents,
                                     entity_b.pos, entity_b.angle, cb.half_extents))

RECURSIVE narrow_phase_detect(_, _, _)
narrow_phase_detect(ents, prs, k) ==
    IF k > Len(prs) THEN <<>>
    ELSE (IF prs[k][1] >= Len(ents) \/ prs[k][2] >= Len(ents) THEN <<>>
          ELSE build_manifold_for_pair(prs[k][1], prs[k][2],
                                       ents[prs[k][1] + 1], ents[prs[k][2] + 1]))
         \o narrow_phase_detect(ents, prs, k + 1)

---------------------------------------------------------------------------
(* Contact constraints *)

\* SolverParams::default
bias_rate == 50
slop == 10
max_bias_velocity == 4000
restitution_threshold == 1000
restitution == 300
friction == 500

\* SolverParams::default
SolverParams_default ==
    [bias_rate |-> bias_rate, slop |-> slop, max_bias_velocity |-> max_bias_velocity,
     restitution_threshold |-> restitution_threshold, restitution |-> restitution,
     friction |-> friction]
\* ConstraintSolver::new(10) in World::new
iterations == 10
CELL_SIZE == 50

velocity_at(r, e) ==
    VAdd(e.vel, Vec2(FMul(FNeg(e.omega), r[2]), FMul(e.omega, r[1])))

\* rot(angle) * local_anchor: the contact arm in world space
world_arm(e, local_anchor) == Mat2_mul_vec2(Mat2_rotation(e.angle), local_anchor)

\* the closure eff_mass of ContactConstraint::new
eff_mass(a, b, r_a, r_b, axis) ==
    LET rn_a == VCross(r_a, axis)
        rn_b == VCross(r_b, axis)
        inv == FAdd(FAdd(FAdd(a.inv_mass, b.inv_mass),
                         FMul(FMul(rn_a, rn_a), a.inv_inertia)),
                    FMul(FMul(rn_b, rn_b), b.inv_inertia))
    IN  IF FGt(inv, 0) THEN FDiv(SCALE, inv) ELSE 0

\* ContactConstraint::new from the local anchors on
contact_of_anchors(index_a, index_b, normal, cp, a, b, local_anchor_a, local_anchor_b) ==
    LET r_a == world_arm(a, local_anchor_a)
        r_b == world_arm(b, local_anchor_b)
        tangent == VPerp(normal)
        rel_vel == VSub(velocity_at(r_b, b), velocity_at(r_a, a))
    IN  [index_a |-> index_a, index_b |-> index_b, normal |-> normal,
         tangent |-> tangent, local_anchor_a |-> local_anchor_a,
         local_anchor_b |-> local_anchor_b, base_separation |-> FNeg(cp.penetration),
         normal_mass |-> eff_mass(a, b, r_a, r_b, normal),
         tangent_mass |-> eff_mass(a, b, r_a, r_b, tangent),
         jn |-> 0, jt |-> 0, relative_velocity |-> VDot(rel_vel, normal)]

ContactConstraint_new(index_a, index_b, normal, cp, a, b) ==
    contact_of_anchors(index_a, index_b, normal, cp, a, b,
        Mat2_mul_vec2(Mat2_transpose(Mat2_rotation(a.angle)), VSub(cp.point, a.pos)),
        Mat2_mul_vec2(Mat2_transpose(Mat2_rotation(b.angle)), VSub(cp.point, b.pos)))


\* a lookup that hands out the same body twice when the indices are equal
get_pair_mut_no_alias_check(ents, i, j) == ~(i >= Len(ents) \/ j >= Len(ents))

\* get_pair_mut returns a pair unless the indices are equal or out of range
get_pair_mut(ents, i, j) == ~(i = j \/ i >= Len(ents) \/ j >= Len(ents))

\* an impulse that also pushes the two bodies apart in position
apply_impulse_and_push(a, b, r_a, r_b, dir, magnitude) ==
    LET impulse == VScale(dir, magnitude)
    IN  <<[a EXCEPT !.vel = VSub(a.vel, VScale(impulse, a.inv_mass)),
                    !.omega = FSub(a.omega, FMul(a.inv_inertia, VCross(r_a, impulse))),
                    !.pos = VSub(a.pos, VScale(impulse, a.inv_mass))],
          [b EXCEPT !.vel = VAdd(b.vel, VScale(impulse, b.inv_mass)),
                    !.omega = FAdd(b.omega, FMul(b.inv_inertia, VCross(r_b, impulse))),
                    !.pos = VAdd(b.pos, VScale(impulse, b.inv_mass))]>>

\* an impulse with the same sign on both bodies
apply_impulse_same_sign(a, b, r_a, r_b, dir, magnitude) ==
    LET impulse == VScale(dir, magnitude)
    IN  <<[a EXCEPT !.vel = VAdd(a.vel, VScale(impulse, a.inv_mass)),
                    !.omega = FAdd(a.omega, FMul(a.inv_inertia, VCross(r_a, impulse)))],
          [b EXCEPT !.vel = VAdd(b.vel, VScale(impulse, b.inv_mass)),
                    !.omega = FAdd(b.omega, FMul(b.inv_inertia, VCross(r_b, impulse)))]>>

\* the two bodies after the impulse, as <<a, b>>
apply_impulse_pair(a, b, r_a, r_b, dir, magnitude) ==
    LET impulse == VScale(dir, magnitude)
    IN  <<[a EXCEPT !.vel = VSub(a.vel, VScale(impulse, a.inv_mass)),
                    !.omega = FSub(a.omega, FMul(a.inv_inertia, VCross(r_a, impulse)))],
          [b EXCEPT !.vel = VAdd(b.vel, VScale(impulse, b.inv_mass)),
                    !.omega = FAdd(b.omega, FMul(b.inv_inertia, VCross(r_b, impulse)))]>>


\* a solver state is [ents, dp, da]: the bodies and the predicted deltas
SolverState(ents, dp, da) == [ents |-> ents, dp |-> dp, da |-> da]

\* writes the pair back and runs sync_pair_deltas
sync_pair_deltas(st, ab, index_a, index_b, h) ==
    LET ia == index_a + 1
        ib == index_b + 1
    IN  IF FLe(h, 0)
        THEN SolverState([st.ents EXCEPT ![ia] = ab[1], ![ib] = ab[2]], st.dp, st.da)
        ELSE SolverState([st.ents EXCEPT ![ia] = ab[1], ![ib] = ab[2]],
                         [st.dp EXCEPT ![ia] = VScale(ab[1].vel, h),
                                       ![ib] = VScale(ab[2].vel, h)],
                         [st.da EXCEPT ![ia] = FMul(ab[1].omega, h),
                                       ![ib] = FMul(ab[2].omega, h)])


\* the accumulated normal impulse without the clamp
NoClamp(j) == j

\* the clamp of the accumulated normal impulse
ClampNormal(j) == FMax(j, 0)

\* each solve returns <<solver state, constraint>>

\* the end of solve_normal and apply_restitution: apply jn_new - jn along the normal
apply_normal(c, st, h, a, b, r_a0, r_b0, jn_new) ==
    <<sync_pair_deltas(st, apply_impulse_pair(a, b, r_a0, r_b0, c.normal,
                                              FSub(jn_new, c.jn)),
                       c.index_a, c.index_b, h),
      [c EXCEPT !.jn = jn_new]>>

\* the end of solve_tangent: apply jt_new - jt along the tangent
apply_tangent(c, st, h, a, b, r_a0, r_b0, jt_new) ==
    <<sync_pair_deltas(st, apply_impulse_pair(a, b, r_a0, r_b0, c.tangent,
                                              FSub(jt_new, c.jt)),
                       c.index_a, c.index_b, h),
      [c EXCEPT !.jt = jt_new]>>

\* solve_normal: the bias velocity for the predicted separation
velocity_bias(separation, h, p, use_bias) ==
    IF FLe(h, 0) THEN 0
    ELSE IF FGt(separation, 0) THEN FDiv(separation, h)
    ELSE IF use_bias
    THEN FMax(FDiv(FMul(p.bias_rate, FMin(FAdd(separation, p.slop), 0)), h),
              FNeg(p.max_bias_velocity))
    ELSE 0

\* solve_normal: the predicted separation along the normal
predicted_separation(c, st, r_a0, r_b0) ==
    LET dr_a == VScale(VPerp(r_a0), st.da[c.index_a + 1])
        dr_b == VScale(VPerp(r_b0), st.da[c.index_b + 1])
        dp == VSub(st.dp[c.index_b + 1], st.dp[c.index_a + 1])
    IN  FAdd(c.base_separation, VDot(VSub(VAdd(dp, dr_b), dr_a), c.normal))

\* solve_normal for the pair (a, b) with world arms r_a0, r_b0
solve_normal_pair(c, st, h, p, use_bias, a, b, r_a0, r_b0) ==
    LET vn == VDot(VSub(velocity_at(r_b0, b), velocity_at(r_a0, a)), c.normal)
    IN  apply_normal(c, st, h, a, b, r_a0, r_b0,
            ClampNormal(FAdd(c.jn,
                FMul(FNeg(c.normal_mass),
                     FAdd(vn, velocity_bias(predicted_separation(c, st, r_a0, r_b0),
                                            h, p, use_bias))))))

solve_normal(c, st, h, p, use_bias) ==
    IF ~get_pair_mut(st.ents, c.index_a, c.index_b) THEN <<st, c>>
    ELSE solve_normal_pair(c, st, h, p, use_bias,
                           st.ents[c.index_a + 1], st.ents[c.index_b + 1],
                           world_arm(st.ents[c.index_a + 1], c.local_anchor_a),
                           world_arm(st.ents[c.index_b + 1], c.local_anchor_b))

\* solve_tangent for the pair (a, b) with world arms r_a0, r_b0
solve_tangent_pair(c, st, h, mu, a, b, r_a0, r_b0) ==
    LET vt == VDot(VSub(velocity_at(r_b0, b), velocity_at(r_a0, a)), c.tangent)
        lambda == FMul(FNeg(c.tangent_mass), vt)
        max_jt == FMul(mu, c.jn)
    IN  apply_tangent(c, st, h, a, b, r_a0, r_b0,
                      FClamp(FAdd(c.jt, lambda), FNeg(max_jt), max_jt))

solve_tangent(c, st, h, mu) ==
    IF ~get_pair_mut(st.ents, c.index_a, c.index_b) THEN <<st, c>>
    ELSE solve_tangent_pair(c, st, h, mu,
                            st.ents[c.index_a + 1], st.ents[c.index_b + 1],
                            world_arm(st.ents[c.index_a + 1], c.local_anchor_a),
                            world_arm(st.ents[c.index_b + 1], c.local_anchor_b))

\* apply_restitution for the pair (a, b) with world arms r_a0, r_b0
apply_restitution_pair(c, st, h, e, a, b, r_a0, r_b0) ==
    LET vn == VDot(VSub(velocity_at(r_b0, b), velocity_at(r_a0, a)), c.normal)
        impulse == FMul(FNeg(c.normal_mass), FAdd(vn, FMul(e, c.relative_velocity)))
    IN  apply_normal(c, st, h, a, b, r_a0, r_b0, ClampNormal(FAdd(c.jn, impulse)))

apply_restitution(c, st, h, e, threshold) ==
    IF e = 0 THEN <<st, c>>
    ELSE IF FGe(c.base_separation, 0) THEN <<st, c>>
    ELSE IF FGt(c.relative_velocity, FNeg(threshold)) \/ c.jn = 0 THEN <<st, c>>
    ELSE IF ~get_pair_mut(st.ents, c.index_a, c.index_b) THEN <<st, c>>
    ELSE apply_restitution_pair(c, st, h, e,
                                st.ents[c.index_a + 1], st.ents[c.index_b + 1],
                                world_arm(st.ents[c.index_a + 1], c.local_anchor_a),
                                world_arm(st.ents[c.index_b + 1], c.local_anchor_b))

\* the pair <<a, b>> written back into the bodies
write_pair(c, ents, ab) ==
    [ents EXCEPT ![c.index_a + 1] = ab[1], ![c.index_b + 1] = ab[2]]

\* apply_warm_start: the tangent impulse on the pair ab, written back
warm_start_tangent(c, ents, r_a0, r_b0, ab) ==
    write_pair(c, ents, apply_impulse_pair(ab[1], ab[2], r_a0, r_b0, c.tangent, c.jt))

\* apply_warm_start for the pair (a, b) with world arms r_a0, r_b0
apply_warm_start_pair(c, ents, a, b, r_a0, r_b0) ==
    warm_start_tangent(c, ents, r_a0, r_b0,
                       apply_impulse_pair(a, b, r_a0, r_b0, c.normal, c.jn))

\* the bodies after the constraint's warm-start impulse
apply_warm_start(c, ents) ==
    IF c.jn = 0 /\ c.jt = 0 THEN ents
    ELSE IF ~get_pair_mut(ents, c.index_a, c.index_b) THEN ents
    ELSE apply_warm_start_pair(c, ents, ents[c.index_a + 1], ents[c.index_b + 1],
                               world_arm(ents[c.index_a + 1], c.local_anchor_a),
                               world_arm(ents[c.index_b + 1], c.local_anchor_b))


CacheKey_cell(v) == <<RoundCell(v[1], CELL_SIZE), RoundCell(v[2], CELL_SIZE)>>

CacheKey_new(index_a, index_b, local_anchor_a, local_anchor_b) ==
    <<index_a, index_b, CacheKey_cell(local_anchor_a), CacheKey_cell(local_anchor_b)>>

KeyOf(c) == CacheKey_new(c.index_a, c.index_b, c.local_anchor_a, c.local_anchor_b)

---------------------------------------------------------------------------
(* ConstraintSolver *)

EmptyCache == [k \in {} |-> <<0, 0>>]

CacheInsert(cch, key, val) ==
    [k \in (DOMAIN cch) \cup {key} |-> IF k = key THEN val ELSE cch[k]]

\* a cache that is never cleared
RECURSIVE CacheKept(_, _)
CacheKept(cs, n) ==
    IF n = 0 THEN cache
    ELSE IF cs[n].jn # 0 \/ cs[n].jt # 0
    THEN CacheInsert(CacheKept(cs, n - 1), KeyOf(cs[n]), <<cs[n].jn, cs[n].jt>>)
    ELSE CacheKept(cs, n - 1)

\* the cache written from the constraints of the step before
RECURSIVE CacheFrom(_, _)
CacheFrom(cs, n) ==
    IF n = 0 THEN EmptyCache
    ELSE IF cs[n].jn # 0 \/ cs[n].jt # 0
    THEN CacheInsert(CacheFrom(cs, n - 1), KeyOf(cs[n]), <<cs[n].jn, cs[n].jt>>)
    ELSE CacheFrom(cs, n - 1)

dt_ratio(h, last) == IF FGt(last, 0) THEN FDiv(h, last) ELSE SCALE

\* cached impulses handed on as they are
WarmStartedUnscaled(c, cch, ratio) ==
    IF KeyOf(c) \in DOMAIN cch
    THEN [c EXCEPT !.jn = cch[KeyOf(c)][1], !.jt = cch[KeyOf(c)][2]]
    ELSE c

\* the impulses a fresh constraint starts with
WarmStarted(c, cch, ratio) ==
    IF KeyOf(c) \in DOMAIN cch
    THEN [c EXCEPT !.jn = FMul(cch[KeyOf(c)][1], ratio),
                   !.jt = FMul(cch[KeyOf(c)][2], ratio)]
    ELSE c

\* one constraint per manifold, for its first point only
ManifoldConstraintsFirstPoint(m, k, ents, cch, ratio) ==
    IF k > Len(m.points) THEN <<>>
    ELSE <<WarmStarted(ContactConstraint_new(m.a, m.b, m.normal, m.points[k],
                                             ents[m.a + 1], ents[m.b + 1]),
                       cch, ratio)>>

RECURSIVE ManifoldConstraints(_, _, _, _, _)
ManifoldConstraints(m, k, ents, cch, ratio) ==
    IF k > Len(m.points) THEN <<>>
    ELSE <<WarmStarted(ContactConstraint_new(m.a, m.b, m.normal, m.points[k],
                                             ents[m.a + 1], ents[m.b + 1]),
                       cch, ratio)>>
         \o ManifoldConstraints(m, k + 1, ents, cch, ratio)

RECURSIVE NewConstraints(_, _, _, _, _)
NewConstraints(ms, k, ents, cch, ratio) ==
    IF k > Len(ms) THEN <<>>
    ELSE (IF ms[k].a >= Len(ents) \/ ms[k].b >= Len(ents) THEN <<>>
          ELSE ManifoldConstraints(ms[k], 1, ents, cch, ratio))
         \o NewConstraints(ms, k + 1, ents, cch, ratio)

ensure_delta_capacity(deltas, count, zero) ==
    IF Len(deltas) # count
    THEN [i \in 1..count |-> IF i <= Len(deltas) THEN deltas[i] ELSE zero]
    ELSE deltas

\* one pass of a solve function over the constraint list, in list order:
\* <<solver state, constraints>>
\* the normal pass run from the last constraint of the list to the first
RECURSIVE NormalPassBackwards(_, _, _, _, _)
NormalPassBackwards(cs, k, st, h, p) ==
    IF k > Len(cs) THEN <<st, cs>>
    ELSE LET j == Len(cs) + 1 - k
             r == solve_normal(cs[j], st, h, p, TRUE)
         IN  NormalPassBackwards([cs EXCEPT ![j] = r[2]], k + 1, r[1], h, p)

RECURSIVE NormalPass(_, _, _, _, _)
NormalPass(cs, k, st, h, p) ==
    IF k > Len(cs) THEN <<st, cs>>
    ELSE LET r == solve_normal(cs[k], st, h, p, TRUE)
         IN  NormalPass([cs EXCEPT ![k] = r[2]], k + 1, r[1], h, p)

RECURSIVE TangentPass(_, _, _, _, _)
TangentPass(cs, k, st, h, p) ==
    IF k > Len(cs) THEN <<st, cs>>
    ELSE LET r == solve_tangent(cs[k], st, h, p.friction)
         IN  TangentPass([cs EXCEPT ![k] = r[2]], k + 1, r[1], h, p)

\* a solve without the restitution pass
RestitutionPassSkipped(cs, k, st, h, p) == <<st, cs>>

RECURSIVE RestitutionPass(_, _, _, _, _)
RestitutionPass(cs, k, st, h, p) ==
    IF k > Len(cs) THEN <<st, cs>>
    ELSE LET r == apply_restitution(cs[k], st, h, p.restitution, p.restitution_threshold)
         IN  RestitutionPass([cs EXCEPT ![k] = r[2]], k + 1, r[1], h, p)

RECURSIVE WarmStartAll(_, _, _)
WarmStartAll(cs, k, ents) ==
    IF k > Len(cs) THEN ents
    ELSE WarmStartAll(cs, k + 1, apply_warm_start(cs[k], ents))

---------------------------------------------------------------------------
(* Integrator and force generators *)

\* a velocity integration that acts for Integrator::SemiImplicitEuler only
integrate_velocity_semi_implicit_only(e, h, integ) ==
    IF FLe(h, 0) \/ integ # "SemiImplicitEuler" THEN e
    ELSE [e EXCEPT !.vel = VAdd(e.vel, VScale(VScale(e.force, e.inv_mass), h)),
                   !.omega = FAdd(e.omega, FMul(FMul(e.torque, e.inv_inertia), h))]

integrate_velocity(e, h, integ) ==
    IF FLe(h, 0) THEN e
    ELSE LET a == VScale(e.force, e.inv_mass)
             alpha == FMul(e.torque, e.inv_inertia)
         IN  IF integ \in {"ExplicitEuler", "SemiImplicitEuler"}
             THEN [e EXCEPT !.vel = VAdd(e.vel, VScale(a, h)),
                            !.omega = FAdd(e.omega, FMul(alpha, h))]
             ELSE e

LinearDrag(k) == [type |-> "LinearDrag", k |-> k]
EndEntity(i) == [tag |-> "Entity", i |-> i, p |-> VZero]
EndAnchor(p) == [tag |-> "Anchor", i |-> 0, p |-> p]
Spring(a, b, k, c, rest) ==
    [type |-> "Spring", a |-> a, b |-> b, k |-> k, c |-> c, rest |-> rest]

LinearDrag_apply(g, ents) ==
    [i \in 1..Len(ents) |->
        IF ents[i].inv_mass = 0 THEN ents[i]
        ELSE [ents[i] EXCEPT !.force = VAdd(ents[i].force, VScale(VNeg(ents[i].vel), g.k))]]

\* one end of a spring: its position, velocity and inverse mass
End_state(end, ents) ==
    IF end.tag = "Entity"
    THEN [pos |-> ents[end.i + 1].pos, vel |-> ents[end.i + 1].vel,
          inv_mass |-> ents[end.i + 1].inv_mass]
    ELSE [pos |-> end.p, vel |-> VZero, inv_mass |-> 0]

\* entities.get(i) is None
End_missing(end, ents) == end.tag = "Entity" /\ end.i >= Len(ents)

\* Spring::apply: f_a on end a, -f_a on end b
Spring_push(g, ents, f_a) ==
    LET e1 == IF g.a.tag = "Entity" /\ FGt(End_state(g.a, ents).inv_mass, 0)
              THEN [ents EXCEPT ![g.a.i + 1].force = VAdd(@, f_a)]
              ELSE ents
    IN  IF g.b.tag = "Entity" /\ FGt(End_state(g.b, ents).inv_mass, 0)
        THEN [e1 EXCEPT ![g.b.i + 1].force = VSub(@, f_a)]
        ELSE e1

\* Spring::apply from the displacement on
Spring_stretch(g, ents, displacement, distance) ==
    IF FLt(distance, 1) THEN ents
    ELSE LET direction == VDivS(displacement, distance)
             extension == FSub(distance, g.rest)
             f_spring == VScale(direction, FMul(FNeg(g.k), extension))
             v_rel == VSub(End_state(g.a, ents).vel, End_state(g.b, ents).vel)
             axial == VDot(v_rel, direction)
             f_damp == VScale(direction, FMul(FNeg(g.c), axial))
         IN  Spring_push(g, ents, VAdd(f_spring, f_damp))

Spring_apply(g, ents) ==
    IF End_missing(g.a, ents) \/ End_missing(g.b, ents) THEN ents
    ELSE Spring_stretch(g, ents,
                        VSub(End_state(g.a, ents).pos, End_state(g.b, ents).pos),
                        VLength(VSub(End_state(g.a, ents).pos, End_state(g.b, ents).pos)))


ForceGen_apply(g, ents) ==
    IF g.type = "LinearDrag" THEN LinearDrag_apply(g, ents) ELSE Spring_apply(g, ents)

\* a loop over the list the step has just emptied
ApplyNoForces(gens, k, ents) == ents

RECURSIVE ApplyForces(_, _, _)
ApplyForces(gens, k, ents) ==
    IF k > Len(gens) THEN ents
    ELSE ApplyForces(gens, k + 1, ForceGen_apply(gens[k], ents))

---------------------------------------------------------------------------
(* World *)

\* what a caller can observe of the world and its solver
Snapshot ==
    [entities |-> entities, forces |-> forces, manifolds |-> manifolds,
     constraints |-> constraints, cache |-> cache, last_dt |-> last_dt]

NoHistory == [constraints |-> <<>>, last_dt |-> 0, older |-> <<>>]

\* World::new(gravity, integrator)
World_new(g, integ) ==
    /\ entities = <<>>
    /\ forces = <<>>
    /\ gravity = g
    /\ integrator = integ
    /\ params = SolverParams_default
    /\ frames = <<>>
    /\ manifolds = <<>>
    /\ pairs = <<>>
    /\ constraints = <<>>
    /\ cache = EmptyCache
    /\ solver_dt = 0
    /\ last_dt = 0
    /\ delta_pos = <<>>
    /\ delta_angle = <<>>
    /\ pc = "idle"
    /\ dt = 0
    /\ iter = 0
    /\ entry = Snapshot
    /\ placed = <<>>
    /\ prev = NoHistory
    /\ nsteps = 0
    /\ nedits = 0

Idle == pc \in {"idle", "done"} /\ frames = <<>>

\* an add that puts the new body in front of the others
AddFront(b, limit) ==
    /\ Idle
    /\ Len(entities) < limit
    /\ entities' = <<b>> \o entities
    /\ placed' = Append(placed, b)
    /\ pc' = "idle"
    /\ UNCHANGED <<forces, gravity, params, frames, integrator, manifolds, pairs, constraints, cache,
                   solver_dt, last_dt, delta_pos, delta_angle, dt, iter, entry, prev,
                   nsteps, nedits>>

\* World::add
Add(b, limit) ==
    /\ Idle
    /\ Len(entities) < limit
    /\ entities' = Append(entities, b)
    /\ placed' = Append(placed, b)
    /\ pc' = "idle"
    /\ UNCHANGED <<forces, gravity, params, frames, integrator, manifolds, pairs, constraints, cache,
                   solver_dt, last_dt, delta_pos, delta_angle, dt, iter, entry, prev,
                   nsteps, nedits>>

\* the caller writes world.solver.params between two steps
SetParams(p) ==
    /\ Idle
    /\ params # p
    /\ params' = p
    /\ pc' = "idle"
    /\ UNCHANGED <<entities, forces, gravity, integrator, frames, manifolds, pairs, constraints,
                   cache, solver_dt, last_dt, delta_pos, delta_angle, dt, iter, entry,
                   placed, prev, nsteps, nedits>>

\* World::add_force
AddForce(g, limit) ==
    /\ Idle
    /\ Len(forces) < limit
    /\ forces' = Append(forces, g)
    /\ pc' = "idle"
    /\ UNCHANGED <<entities, gravity, params, frames, integrator, manifolds, pairs, constraints, cache,
                   solver_dt, last_dt, delta_pos, delta_angle, dt, iter, entry, placed,
                   prev, nsteps, nedits>>

\* the caller writes the public fields of body i between two steps
Edit(i, b, limit) ==
    /\ Idle
    /\ nedits < limit
    /\ i \in 1..Len(entities)
    /\ b # entities[i]
    /\ entities' = [entities EXCEPT ![i] = b]
    /\ placed' = [placed EXCEPT ![i] = b]
    /\ nedits' = nedits + 1
    /\ pc' = "idle"
    /\ UNCHANGED <<forces, gravity, params, frames, integrator, manifolds, pairs, constraints, cache,
                   solver_dt, last_dt, delta_pos, delta_angle, dt, iter, entry, prev,
                   nsteps>>

\* World::step(dt): the guard
StepCall(h, limit) ==
    /\ Idle
    /\ nsteps < limit
    /\ nsteps' = nsteps + 1
    /\ dt' = h
    /\ entry' = Snapshot
    /\ pc' = IF FLe(h, 0) THEN "done" ELSE "clear"
    /\ UNCHANGED <<entities, forces, gravity, params, frames, integrator, manifolds, pairs, constraints,
                   cache, solver_dt, last_dt, delta_pos, delta_angle, iter, placed, prev,
                   nedits>>

\* a step that leaves the accumulators as the caller wrote them
ClearAccumulatorsSkipped ==
    /\ pc = "clear"
    /\ pc' = "gravity"
    /\ UNCHANGED <<entities, forces, gravity, params, frames, integrator, manifolds, pairs,
                   constraints, cache, solver_dt, last_dt, delta_pos, delta_angle, dt, iter,
                   entry, placed, prev, nsteps, nedits>>

\* (1) clear accumulators
ClearAccumulators ==
    /\ pc = "clear"
    /\ entities' = [i \in 1..Len(entities) |->
                       [entities[i] EXCEPT !.force = VZero, !.torque = 0]]
    /\ pc' = "gravity"
    /\ UNCHANGED <<forces, gravity, params, frames, integrator, manifolds, pairs, constraints, cache,
                   solver_dt, last_dt, delta_pos, delta_angle, dt, iter, entry, placed,
                   prev, nsteps, nedits>>

\* (2) gravity as a force on every body of positive inverse mass
GravityForce(e, g) ==
    IF FGt(e.inv_mass, 0)
    THEN [e EXCEPT !.force = VAdd(e.force, VScale(g, FDiv(SCALE, e.inv_mass)))]
    ELSE e

ApplyGravity ==
    /\ pc = "gravity"
    /\ entities' = [i \in 1..Len(entities) |-> GravityForce(entities[i], gravity)]
    /\ pc' = "forces"
    /\ UNCHANGED <<forces, gravity, params, frames, integrator, manifolds, pairs, constraints, cache,
                   solver_dt, last_dt, delta_pos, delta_angle, dt, iter, entry, placed,
                   prev, nsteps, nedits>>

\* (2b) the force generators, in list order
ApplyForceGens ==
    /\ pc = "forces"
    /\ entities' = ApplyForces(forces, 1, entities)
    /\ pc' = "velocity"
    /\ UNCHANGED <<forces, gravity, params, frames, integrator, manifolds, pairs, constraints, cache,
                   solver_dt, last_dt, delta_pos, delta_angle, dt, iter, entry, placed,
                   prev, nsteps, nedits>>

\* (3) integrate velocities
IntegrateVelocities ==
    /\ pc = "velocity"
    /\ entities' = [i \in 1..Len(entities) |->
                       integrate_velocity(entities[i], dt, integrator)]
    /\ pc' = "broad"
    /\ UNCHANGED <<forces, gravity, params, frames, integrator, manifolds, pairs, constraints, cache,
                   solver_dt, last_dt, delta_pos, delta_angle, dt, iter, entry, placed,
                   prev, nsteps, nedits>>

\* (4) broad phase
BroadPhase ==
    /\ pc = "broad"
    /\ pairs' = detect_sap(entities)
    /\ pc' = "narrow"
    /\ UNCHANGED <<entities, forces, gravity, params, frames, integrator, manifolds, constraints, cache,
                   solver_dt, last_dt, delta_pos, delta_angle, dt, iter, entry, placed,
                   prev, nsteps, nedits>>

\* (4) narrow phase
NarrowPhase ==
    /\ pc = "narrow"
    /\ manifolds' = narrow_phase_detect(entities, pairs, 1)
    /\ pc' = "build"
    /\ UNCHANGED <<entities, forces, gravity, params, frames, integrator, pairs, constraints, cache,
                   solver_dt, last_dt, delta_pos, delta_angle, dt, iter, entry, placed,
                   prev, nsteps, nedits>>

\* (5) ConstraintSolver::build_constraints
build_constraints ==
    /\ pc = "build"
    /\ solver_dt' = dt
    /\ cache' = CacheFrom(constraints, Len(constraints))
    /\ constraints' = NewConstraints(manifolds, 1, entities, cache', dt_ratio(dt, last_dt))
    /\ last_dt' = dt
    /\ delta_pos' = ensure_delta_capacity(delta_pos, Len(entities), VZero)
    /\ delta_angle' = IF Len(delta_pos) # Len(entities)
                      THEN ensure_delta_capacity(delta_angle, Len(entities), 0)
                      ELSE delta_angle
    /\ prev' = [constraints |-> constraints, last_dt |-> last_dt,
                older |-> prev.constraints]
    /\ pc' = "warm"
    /\ UNCHANGED <<entities, forces, gravity, params, frames, integrator, manifolds, pairs, dt, iter,
                   entry, placed, nsteps, nedits>>

\* init_predicted_deltas
init_predicted_deltas(ents, h) ==
    IF FLe(h, 0)
    THEN <<[i \in 1..Len(ents) |-> VZero], [i \in 1..Len(ents) |-> 0]>>
    ELSE <<[i \in 1..Len(ents) |-> VScale(ents[i].vel, h)],
           [i \in 1..Len(ents) |-> FMul(ents[i].omega, h)]>>

\* (5) ConstraintSolver::solve: warm start, then the predicted deltas
SolveWarmStart ==
    /\ pc = "warm"
    /\ entities' = WarmStartAll(constraints, 1, entities)
    /\ \E d \in {init_predicted_deltas(entities', solver_dt)} :
          /\ delta_pos' = d[1]
          /\ delta_angle' = d[2]
    /\ iter' = iterations
    /\ pc' = IF iterations > 0 THEN "normal" ELSE "restitution"
    /\ UNCHANGED <<forces, gravity, params, frames, integrator, manifolds, pairs, constraints, cache,
                   solver_dt, last_dt, dt, entry, placed, prev, nsteps, nedits>>

\* one sweep's normal pass over all constraints
SolveNormalPass ==
    /\ pc = "normal"
    /\ \E r \in {NormalPass(constraints, 1, SolverState(entities, delta_pos, delta_angle),
                              solver_dt, params)} :
          /\ entities' = r[1].ents
          /\ delta_pos' = r[1].dp
          /\ delta_angle' = r[1].da
          /\ constraints' = r[2]
    /\ pc' = "tangent"
    /\ UNCHANGED <<forces, gravity, params, frames, integrator, manifolds, pairs, cache, solver_dt,
                   last_dt, dt, iter, entry, placed, prev, nsteps, nedits>>

\* solve_tangent of the constraint reaches f32::clamp with bounds that make it panic
tangent_clamp_panics(c, ents, mu) ==
    /\ get_pair_mut(ents, c.index_a, c.index_b)
    /\ ClampPanics(FNeg(FMul(mu, c.jn)), FMul(mu, c.jn))

\* some constraint of the list makes the tangent pass panic
TangentPassPanics ==
    \E k \in 1..Len(constraints) :
        tangent_clamp_panics(constraints[k], entities, params.friction)

\* one sweep's tangent pass over all constraints
SolveTangentPass ==
    /\ pc = "tangent"
    /\ \E r \in {TangentPass(constraints, 1, SolverState(entities, delta_pos, delta_angle),
                               solver_dt, params)} :
          /\ entities' = r[1].ents
          /\ delta_pos' = r[1].dp
          /\ delta_angle' = r[1].da
          /\ constraints' = r[2]
    /\ iter' = iter - 1
    /\ pc' = IF TangentPassPanics THEN "panicked"
             ELSE IF iter > 1 THEN "normal" ELSE "restitution"
    /\ UNCHANGED <<forces, gravity, params, frames, integrator, manifolds, pairs, cache, solver_dt,
                   last_dt, dt, entry, placed, prev, nsteps, nedits>>

\* the restitution pass, once per constraint after the last sweep
SolveRestitutionPass ==
    /\ pc = "restitution"
    /\ \E r \in {RestitutionPass(constraints, 1, SolverState(entities, delta_pos, delta_angle),
                                   solver_dt, params)} :
          /\ entities' = r[1].ents
          /\ delta_pos' = r[1].dp
          /\ delta_angle' = r[1].da
          /\ constraints' = r[2]
    /\ pc' = "position"
    /\ UNCHANGED <<forces, gravity, params, frames, integrator, manifolds, pairs, cache, solver_dt,
                   last_dt, dt, iter, entry, placed, prev, nsteps, nedits>>

\* positions advanced a second time
PositionStepTwice(e, h) ==
    [e EXCEPT !.pos = VAdd(VAdd(e.pos, VScale(e.vel, h)), VScale(e.vel, h)),
              !.angle = FAdd(FAdd(e.angle, FMul(e.omega, h)), FMul(e.omega, h))]

\* (6) integrate positions
PositionStep(e, h) ==
    [e EXCEPT !.pos = VAdd(e.pos, VScale(e.vel, h)),
              !.angle = FAdd(e.angle, FMul(e.omega, h))]

IntegratePositions ==
    /\ pc = "position"
    /\ entities' = [i \in 1..Len(entities) |-> PositionStep(entities[i], dt)]
    /\ pairs' = <<>>
    /\ pc' = "done"
    /\ UNCHANGED <<forces, gravity, params, frames, integrator, manifolds, constraints, cache, solver_dt,
                   last_dt, delta_pos, delta_angle, dt, iter, entry, placed, prev,
                   nsteps, nedits>>

\* the steps inside one World::step call
StepPhases ==
    \/ ClearAccumulators
    \/ ApplyGravity
    \/ ApplyForceGens
    \/ IntegrateVelocities
    \/ BroadPhase
    \/ NarrowPhase
    \/ build_constraints
    \/ SolveWarmStart
    \/ SolveNormalPass
    \/ SolveTangentPass
    \/ SolveRestitutionPass
    \/ IntegratePositions

---------------------------------------------------------------------------
(* The explored worlds *)

MaxBodies == 2
MaxSteps == 2

\* a body with a collider attached by the caller (the collider field is public)
WithCollider(e, col) == [e EXCEPT !.collider = col]
WithVel(e, v, w) == [e EXCEPT !.vel = v, !.omega = w]

\* static ground slab 4 x 1 around the origin, top face at y = 0.5
Ground == RigidBody_box_xy(Vec2(0, 0), 0, 0, 4000, 1000)
\* unit-mass ball sunk 0.1 into the ground, moving down and sideways
Ball == WithVel(RigidBody_circle(Vec2(0, 900), 0, 1000, 500), Vec2(1500, -4000), 0)
\* a second ball overlapping the first by 0.4, at rest
Ball2 == RigidBody_circle(Vec2(600, 900), 0, 1000, 500)
\* crate resting flat on the ground, sunk 0.05
Crate == RigidBody_box_xy(Vec2(-1000, 750), 0, 1000, 1000, 600)
\* crate tilted by 0.3 rad, one corner in the ground
Tilted == RigidBody_box_xy(Vec2(1200, 900), 300, 2000, 1000, 600)
\* immovable particle that was given a velocity
Drifter == Particle_new(Vec2(3000, 3000), Vec2(1000, 0), 0)
\* RigidBody::new with zero inverse mass and positive inverse inertia, with a
\* circle collider, overlapping the first ball
Pinned == WithCollider(RigidBody_new(Vec2(-700, 900), 0, 0, 1000), Circle(500))

Catalogue == {Ground, Ball, Ball2, Crate, Tilted, Drifter, Pinned}

\* step sizes a caller passes: zero, 1/60 s and 1/30 s
StepSizes == {0, 16, 32}

\* a world without gravity, and one with gravity and the other integrator
WorldConfigs == {<<Vec2(0, 0), "SemiImplicitEuler">>, <<Vec2(0, -9810), "ExplicitEuler">>}

Init == \E w \in WorldConfigs : World_new(w[1], w[2])

Next ==
    \/ \E b \in Catalogue : Add(b, MaxBodies)
    \/ \E h \in StepSizes : StepCall(h, MaxSteps)
    \/ StepPhases

Spec == Init /\ [][Next]_vars

---------------------------------------------------------------------------
(* Collision detection on its own: the step stands at the broad phase with a
   scene of bodies in `entities` *)

MaxSceneBodies == 3

SceneBodies ==
    {RigidBody_circle(Vec2(0, 0), 0, 1000, 500),
     \* its inflated box touches the first circle's exactly, the circles do not
     RigidBody_circle(Vec2(1100, 0), 0, 1000, 500),
     RigidBody_circle(Vec2(600, 300), 0, 1000, 500),
     RigidBody_circle(Vec2(3000, 0), 0, 1000, 500),
     \* 0.03 clear of the first circle
     RigidBody_circle(Vec2(0, 1030), 0, 1000, 500),
     \* same centre as the first circle
     RigidBody_circle(Vec2(0, 0), 0, 1000, 300),
     RigidBody_box_xy(Vec2(400, 200), 0, 1000, 1000, 600),
     RigidBody_box_xy(Vec2(-300, 500), 300, 1000, 1000, 600),
     RigidBody_box_xy(Vec2(900, -400), 785, 1000, 1000, 600),
     \* long thin slab below the others, spanning all of them in x
     RigidBody_box_xy(Vec2(2000, -650), 0, 0, 6000, 200),
     Particle_new(Vec2(600, 0), Vec2(0, 0), 1000),
     RigidBody_new(Vec2(100, 100), 0, 1000, 1000),
     RigidBody_box_xy(Vec2(3300, 500), 0, 1000, 600, 600),
     \* a circle whose x coordinate is not a number
     RigidBody_circle(Vec2(NaN, 0), 0, 1000, 500)}

RECURSIVE Scenes(_)
Scenes(n) ==
    IF n = 0 THEN {<<>>}
    ELSE Scenes(n - 1) \cup
         {Append(sc, b) : sc \in {x \in Scenes(n - 1) : Len(x) = n - 1}, b \in SceneBodies}

InitDetect ==
    \E sc \in Scenes(MaxSceneBodies) :
        /\ entities = sc
        /\ placed = sc
        /\ forces = <<>>
        /\ gravity = Vec2(0, 0)
        /\ integrator = "SemiImplicitEuler"
        /\ params = SolverParams_default
        /\ frames = <<>>
        /\ manifolds = <<>>
        /\ pairs = <<>>
        /\ constraints = <<>>
        /\ cache = EmptyCache
        /\ solver_dt = 0
        /\ last_dt = 0
        /\ delta_pos = <<>>
        /\ delta_angle = <<>>
        /\ pc = "broad"
        /\ dt = 16
        /\ iter = 0
        /\ entry = [entities |-> sc, forces |-> <<>>, manifolds |-> <<>>,
                    constraints |-> <<>>, cache |-> EmptyCache, last_dt |-> 0]
        /\ prev = NoHistory
        /\ nsteps = 1
        /\ nedits = 0

NextDetect == BroadPhase \/ NarrowPhase

SpecDetect == InitDetect /\ [][NextDetect]_vars

Range(sq) == {sq[k] : k \in 1..Len(sq)}

\* C2: the broad phase is complete: once detect_sap has returned, every pair of
\* bodies i < j whose inflated boxes overlap (touching counts) is in the pair
\* list; no entry that still overlaps a later one was evicted.
BroadPhaseComplete ==
    pc = "narrow" =>
        \A i \in 1..Len(entities), j \in 1..Len(entities) :
            (i < j /\ FLe(entity_aabb(entities[i]).min[1], entity_aabb(entities[j]).max[1])
                   /\ FLe(entity_aabb(entities[j]).min[1], entity_aabb(entities[i]).max[1])
                   /\ FLe(entity_aabb(entities[i]).min[2], entity_aabb(entities[j]).max[2])
                   /\ FLe(entity_aabb(entities[j]).min[2], entity_aabb(entities[i]).max[2]))
            => <<i - 1, j - 1>> \in Range(pairs)

\* three bodies, the first and the last swept touch exactly at the inflated
\* boundary and are reported, while another entry has been evicted
BroadPhaseCompleteWitness ==
    /\ pc = "narrow"
    /\ Len(entities) = 3
    /\ \E i \in 1..3, j \in 1..3 :
          /\ i < j
          /\ entity_aabb(entities[i]).max[1] = entity_aabb(entities[j]).min[1]
          /\ <<i - 1, j - 1>> \in Range(pairs)
    /\ \E i \in 1..3, j \in 1..3 :
          FLt(entity_aabb(entities[i]).max[1], entity_aabb(entities[j]).min[1])

\* C3: every returned pair is canonical: i < j, both indices name bodies, no
\* body is paired with itself, and no pair is returned twice.
PairsCanonical ==
    pc = "narrow" =>
        /\ \A k \in 1..Len(pairs) :
              /\ pairs[k][1] < pairs[k][2]
              /\ pairs[k][1] >= 0
              /\ pairs[k][2] < Len(entities)
        /\ \A k \in 1..Len(pairs), l \in 1..Len(pairs) : k # l => pairs[k] # pairs[l]

\* a sweep that met a later-indexed body first and still returned two pairs
PairsCanonicalWitness ==
    /\ pc = "narrow"
    /\ Len(pairs) >= 2
    /\ \E i \in 1..Len(entities), j \in 1..Len(entities) :
          /\ i < j
          /\ FLt(entity_aabb(entities[j]).min[1], entity_aabb(entities[i]).min[1])
          /\ <<i - 1, j - 1>> \in Range(pairs)

HasCollider(e) == e.collider.tag # "None"

\* C10: every manifold names two different existing bodies a < b that both
\* have colliders, and carries one or two contact points, exactly one when a
\* circle is involved; there is no manifold without points.
ManifoldsValid ==
    \A k \in 1..Len(manifolds) :
        LET m == manifolds[k]
        IN  /\ m.a # m.b
            /\ m.a < m.b
            /\ m.a >= 0
            /\ m.b < Len(entities)
            /\ HasCollider(entities[m.a + 1])
            /\ HasCollider(entities[m.b + 1])
            /\ Len(m.points) \in {1, 2}
            /\ (entities[m.a + 1].collider.tag = "Circle"
                \/ entities[m.b + 1].collider.tag = "Circle") => Len(m.points) = 1

\* a scene with a two-point box/box manifold and a circle manifold, next to a
\* reported pair that produced no manifold
ManifoldsValidWitness ==
    /\ pc = "build"
    /\ \E k \in 1..Len(manifolds) : Len(manifolds[k].points) = 2
    /\ \E k \in 1..Len(manifolds) :
          entities[manifolds[k].a + 1].collider.tag = "Circle"
    /\ Len(pairs) > Len(manifolds)

---------------------------------------------------------------------------
(* Steps of any size, on bodies without colliders *)

MaxLooseBodies == 2
MaxLooseSteps == 2
MaxForces == 2

\* a unit-mass particle, and a RigidBody::new that spins
Mote == Particle_new(Vec2(0, 1000), Vec2(1000, 0), 1000)
Spinner == WithVel(RigidBody_new(Vec2(2000, 0), 0, 1000, 1000), Vec2(0, 0), 1000)

LooseBodies == {Mote, Spinner, Drifter}

\* a drag, a spring to an anchor, and a spring to a body that is not there
Generators == {LinearDrag(500),
               Spring(EndEntity(0), EndAnchor(Vec2(0, 3000)), 2000, 100, 1000),
               Spring(EndEntity(0), EndEntity(7), 2000, 100, 1000)}


\* zero, negative, 1/60 s, and the three non-finite values of f32
AnyStepSizes == {0, -16, 16, NaN, PosInf, NegInf}

\* steps are explored from worlds whose positions are numbers; a step with a
\* dt that is not finite leaves positions that are not
AllPositionsFinite ==
    \A i \in 1..Len(entities) : IsFinite(entities[i].pos[1]) /\ IsFinite(entities[i].pos[2])

NextAnyDt ==
    \/ \E b \in LooseBodies : Add(b, MaxLooseBodies)
    \/ \E g \in Generators : AddForce(g, MaxForces)
    \/ \E h \in AnyStepSizes : AllPositionsFinite /\ StepCall(h, MaxLooseSteps)
    \/ StepPhases

SpecAnyDt == Init /\ [][NextAnyDt]_vars

\* C1: a step whose dt is zero, negative or not finite is a no-op: when it
\* returns, bodies, manifolds, constraints, cache and last_dt are as they were
\* when it was called.
InvalidStepIsNoOp ==
    (pc = "done" /\ (FLe(dt, 0) \/ ~IsFinite(dt))) => Snapshot = entry

---------------------------------------------------------------------------
(* Static bodies *)

IsStatic(e) == e.inv_mass = 0

\* C4: a body with inv_mass = 0 is never integrated: whatever its vel and
\* omega, its pos and angle stay what the caller set.
StaticNeverIntegrated ==
    \A i \in 1..Len(entities) :
        IsStatic(entities[i]) =>
            /\ entities[i].pos = placed[i].pos
            /\ entities[i].angle = placed[i].angle

InSolve == pc \in {"normal", "tangent", "restitution", "position"}

\* C5: a body with inv_mass = 0 ignores all impulses: the warm start and the
\* normal, tangent and restitution passes leave its vel and omega as they were
\* when the step was called, and a contact between two such bodies keeps
\* jn = jt = 0.
StaticIgnoresImpulses ==
    /\ InSolve =>
          \A i \in 1..Len(entities) :
              IsStatic(entities[i]) =>
                  /\ entities[i].vel = entry.entities[i].vel
                  /\ entities[i].omega = entry.entities[i].omega
    /\ \A k \in 1..Len(constraints) :
          (IsStatic(entities[constraints[k].index_a + 1])
           /\ IsStatic(entities[constraints[k].index_b + 1]))
          => (constraints[k].jn = 0 /\ constraints[k].jt = 0)

---------------------------------------------------------------------------
(* Accumulated impulses *)

\* C6: the accumulated normal impulse is never negative: jn >= 0 for every
\* constraint in every state of the solver, as inherited by the warm start,
\* after every normal pass and after the restitution pass.
NormalImpulseNonNegative ==
    \A k \in 1..Len(constraints) : FGe(constraints[k].jn, 0)

\* a second step whose constraint inherited a positive impulse from the cache
NormalImpulseWitness ==
    /\ pc = "warm"
    /\ nsteps = 2
    /\ \E k \in 1..Len(constraints) :
          FGt(constraints[k].jn, 0) /\ KeyOf(constraints[k]) \in DOMAIN cache

\* C7: when solve returns, every constraint is inside the friction cone,
\* |jt| <= friction * jn, with jn the value left by the restitution pass.
CoulombConeAtReturn ==
    pc = "position" =>
        \A k \in 1..Len(constraints) :
            FLe(FAbs(constraints[k].jt), FMul(friction, constraints[k].jn))

---------------------------------------------------------------------------
(* Warm starting across steps, with the caller moving bodies in between *)

MaxCacheBodies == 2
MaxCacheSteps == 3
MaxEdits == 2

\* the ball lifted clear of everything
ParkedBall == [Ball EXCEPT !.pos = Vec2(0, 5000)]

CacheCatalogue == {Ground, Ball}
\* between two steps the caller puts the ball away or back where it started
EditChoices == {Ball, ParkedBall}
CacheStepSizes == {16, 32}

NextCache ==
    \/ \E b \in CacheCatalogue : Add(b, MaxCacheBodies)
    \/ \E i \in 1..Len(entities), b \in EditChoices :
          nsteps > 0 /\ placed[i] \in EditChoices /\ Edit(i, b, MaxEdits)
    \/ \E h \in CacheStepSizes : StepCall(h, MaxCacheSteps)
    \/ StepPhases

SpecCache == Init /\ [][NextCache]_vars

Keys(cs) == {KeyOf(cs[k]) : k \in 1..Len(cs)}

\* C8: warm start: a constraint built with the key of a constraint of the step
\* before starts with that constraint's impulses scaled by dt / last_dt,
\* jn = jn_prev * (dt / last_dt) and jt likewise; a constraint whose key was
\* not there starts with jn = jt = 0.
WarmStartScaled ==
    pc = "warm" =>
        \A k \in 1..Len(constraints) :
            LET c == constraints[k]
            IN  IF KeyOf(c) \in Keys(prev.constraints)
                THEN \E n \in 1..Len(prev.constraints) :
                        /\ KeyOf(prev.constraints[n]) = KeyOf(c)
                        /\ c.jn = FMul(prev.constraints[n].jn, FDiv(dt, prev.last_dt))
                        /\ c.jt = FMul(prev.constraints[n].jt, FDiv(dt, prev.last_dt))
                ELSE c.jn = 0 /\ c.jt = 0

\* a step of a different size than the one before inherits a scaled impulse
WarmStartScaledWitness ==
    /\ pc = "warm"
    /\ dt # prev.last_dt
    /\ \E k \in 1..Len(constraints), n \in 1..Len(prev.constraints) :
          /\ KeyOf(prev.constraints[n]) = KeyOf(constraints[k])
          /\ prev.constraints[n].jn # 0
          /\ prev.constraints[n].jt # 0
          /\ constraints[k].jn # prev.constraints[n].jn
          /\ constraints[k].jt # prev.constraints[n].jt

\* C9: the cache forgets: the cache a step consults holds exactly the keys of
\* the step before with a non-zero impulse, so a key that was not revisited in
\* the step before starts from zero even if an older step had it.
CacheForgets ==
    pc = "warm" =>
        /\ DOMAIN cache = {KeyOf(prev.constraints[n]) :
                              n \in {m \in 1..Len(prev.constraints) :
                                        prev.constraints[m].jn # 0
                                        \/ prev.constraints[m].jt # 0}}
        /\ \A k \in 1..Len(constraints) :
              KeyOf(constraints[k]) \notin Keys(prev.constraints)
              => (constraints[k].jn = 0 /\ constraints[k].jt = 0)

\* a contact comes back under the key it had two steps ago, after a step
\* without it
CacheForgetsWitness ==
    /\ pc = "warm"
    /\ \E k \in 1..Len(constraints), n \in 1..Len(prev.older) :
          /\ KeyOf(prev.older[n]) = KeyOf(constraints[k])
          /\ prev.older[n].jn # 0
          /\ KeyOf(constraints[k]) \notin Keys(prev.constraints)
          /\ constraints[k].jn = 0

---------------------------------------------------------------------------
(* Body indices *)

\* what never changes about a body once it is built
Identity(e) ==
    [kind |-> e.kind, inv_mass |-> e.inv_mass, inv_inertia |-> e.inv_inertia,
     collider |-> e.collider]

\* C11: body indices are stable: add appends at the end, and neither add,
\* add_force nor any stage of step removes a body or moves it to another
\* index; the body at index i is always the i-th body added.
IndicesStable ==
    /\ Len(entities) = Len(placed)
    /\ \A i \in 1..Len(entities) : Identity(entities[i]) = Identity(placed[i])

\* a second, different body was added after a step that moved the first one,
\* with a force generator registered
IndicesStableWitness ==
    /\ pc = "idle"
    /\ nsteps = 1
    /\ Len(forces) = 1
    /\ Len(entities) = 2
    /\ Len(entry.entities) = 1
    /\ Identity(entities[1]) # Identity(entities[2])
    /\ entities[1].pos # placed[1].pos

---------------------------------------------------------------------------
(* Force generators *)

\* the bodies of the running step after accumulators were cleared and gravity
\* applied, computed from the bodies at step entry
AfterGravity ==
    [i \in 1..Len(entry.entities) |->
        GravityForce([entry.entities[i] EXCEPT !.force = VZero, !.torque = 0], gravity)]

\* the first n generators applied one after the other, each exactly once
RECURSIVE AppliedUpTo(_)
AppliedUpTo(n) ==
    IF n = 0 THEN AfterGravity ELSE ForceGen_apply(forces[n], AppliedUpTo(n - 1))

---------------------------------------------------------------------------
(* Stages of a step *)

\* the stage that follows each stage of World::step
StageAfter(s) ==
    CASE s = "clear" -> {"gravity"}
      [] s = "gravity" -> {"forces"}
      [] s = "forces" -> {"velocity"}
      [] s = "velocity" -> {"broad"}
      [] s = "broad" -> {"narrow"}
      [] s = "narrow" -> {"build"}
      [] s = "build" -> {"warm"}
      [] s = "warm" -> {"normal", "restitution"}
      [] s = "normal" -> {"tangent"}
      [] s = "tangent" -> {"normal", "restitution"}
      [] s = "restitution" -> {"position"}
      [] s = "position" -> {"done"}
      [] OTHER -> {"idle", "done", "clear"}

BeforePositions ==
    pc \in {"clear", "gravity", "forces", "velocity", "broad", "narrow", "build", "warm",
            "normal", "tangent", "restitution", "position"}

\* C13: within a step with dt > 0 the stages run in the order velocity
\* integration, broad phase, narrow phase, constraint build, solver, position
\* integration; every stage before the last sees the positions of step entry,
\* and pos and angle are advanced once, last, from the post-solver velocity:
\* pos_after = pos_before + vel_after * dt, angle_after = angle_before +
\* omega_after * dt.
PositionsIntegratedLast ==
    /\ [][pc' \in StageAfter(pc)]_pc
    /\ [](BeforePositions =>
            \A i \in 1..Len(entities) :
                /\ entities[i].pos = entry.entities[i].pos
                /\ entities[i].angle = entry.entities[i].angle)
    /\ []((pc = "done" /\ FGt(dt, 0)) =>
            \A i \in 1..Len(entities) :
                /\ entities[i].pos = VAdd(entry.entities[i].pos, VScale(entities[i].vel, dt))
                /\ entities[i].angle
                      = FAdd(entry.entities[i].angle, FMul(entities[i].omega, dt)))

\* a step has returned in which the solver changed a velocity and a spin, and
\* the body moved and turned
PositionsIntegratedLastWitness ==
    /\ pc = "done"
    /\ dt = 16
    /\ \E k \in 1..Len(constraints) : FGt(constraints[k].jn, 0)
    /\ \E i \in 1..Len(entities) :
          /\ entities[i].vel # entry.entities[i].vel
          /\ entities[i].omega # entry.entities[i].omega
          /\ entities[i].pos # entry.entities[i].pos
          /\ entities[i].angle # entry.entities[i].angle

---------------------------------------------------------------------------
(* Worlds of up to three bodies *)

MaxThreeBodies == 3
MaxThreeSteps == 2

\* a ball that just touches the ground and is leaving it upwards
Grazer == WithVel(RigidBody_circle(Vec2(1500, 990), 0, 1000, 500), Vec2(0, 3000), 0)

ThreeCatalogue == {Ground, Crate, Ball, Ball2, Grazer}

\* every step is 1/60 s
ThreeStepSizes == {16}

NextThree ==
    \/ \E b \in ThreeCatalogue : Add(b, MaxThreeBodies)
    \/ \E h \in ThreeStepSizes : StepCall(h, MaxThreeSteps)
    \/ StepPhases

SpecThree == Init /\ [][NextThree]_vars

\* the fields of a body other than vel and omega
Unsolved(e) ==
    [kind |-> e.kind, pos |-> e.pos, angle |-> e.angle, force |-> e.force,
     torque |-> e.torque, inv_mass |-> e.inv_mass, inv_inertia |-> e.inv_inertia,
     collider |-> e.collider]

\* body i (1-based) is named by some constraint
Constrained(i) ==
    \E k \in 1..Len(constraints) :
        constraints[k].index_a = i - 1 \/ constraints[k].index_b = i - 1

\* C14: frame conditions inside a step: broad phase, narrow phase and
\* constraint build change no body field; the solver changes only vel and omega,
\* and only of bodies named by some constraint; pos and angle change only in the
\* final position integration.
FrameConditions ==
    [][/\ pc \in {"broad", "narrow", "build"} => entities' = entities
       /\ pc \in {"warm", "normal", "tangent", "restitution"} =>
             /\ Len(entities') = Len(entities)
             /\ \A i \in 1..Len(entities) :
                   /\ Unsolved(entities'[i]) = Unsolved(entities[i])
                   /\ entities'[i] # entities[i] => Constrained(i)
       /\ pc \notin {"idle", "done", "position"} =>
             \A i \in 1..Len(entities) :
                 /\ entities'[i].pos = entities[i].pos
                 /\ entities'[i].angle = entities[i].angle]_vars

\* the solver has changed the velocity and spin of a body in contact while a
\* moving body without contact stood by
FrameConditionsWitness ==
    /\ pc = "position"
    /\ Len(entities) = 3
    /\ \E i \in 1..3 :
          /\ Constrained(i)
          /\ entities[i].vel # entry.entities[i].vel
          /\ entities[i].omega # entry.entities[i].omega
    /\ \E i \in 1..3 :
          /\ ~Constrained(i)
          /\ entities[i].inv_mass # 0
          /\ entities[i].vel # VZero

---------------------------------------------------------------------------
(* Manifolds and constraints of the step just completed *)

\* the contact points of a manifold list, in manifold order then point order,
\* each as <<a, b, normal, penetration>>
RECURSIVE ContactsOf(_, _)
ContactsOf(ms, n) ==
    IF n = 0 THEN <<>>
    ELSE ContactsOf(ms, n - 1)
         \o [k \in 1..Len(ms[n].points) |->
                <<ms[n].a, ms[n].b, ms[n].normal, ms[n].points[k].penetration>>]

\* what each constraint records of its contact point, in list order
ConstraintContacts ==
    [k \in 1..Len(constraints) |->
        <<constraints[k].index_a, constraints[k].index_b, constraints[k].normal,
          FNeg(constraints[k].base_separation)>>]

\* C16: manifolds and constraints are rebuilt from scratch: after step(dt > 0)
\* returns, world.manifolds holds exactly the manifolds detected in that step,
\* nothing from an earlier step, and the constraint list holds exactly one
\* constraint per contact point of those manifolds, in manifold order then
\* point order.
RebuiltEachStep ==
    (pc = "done" /\ FGt(dt, 0)) =>
        /\ manifolds = narrow_phase_detect(entry.entities, detect_sap(entry.entities), 1)
        /\ ConstraintContacts = ContactsOf(manifolds, Len(manifolds))

\* a second step has returned with a two-point manifold and a one-point
\* manifold, and without a manifold that the step before had
RebuiltEachStepWitness ==
    /\ pc = "done"
    /\ nsteps = 2
    /\ Len(manifolds) = 2
    /\ Len(constraints) = 3
    /\ Len(prev.constraints) > Len(constraints)
    /\ \E n \in 1..Len(prev.constraints) :
          \A k \in 1..Len(constraints) :
              <<constraints[k].index_a, constraints[k].index_b>>
                  # <<prev.constraints[n].index_a, prev.constraints[n].index_b>>

---------------------------------------------------------------------------
(* Momentum *)

\* the totals are sums of rounded products; with no impulse applied they may
\* differ from their value at step entry by this many grid units (0.01)
MomentumTolerance == 10

Mass(e) == FDiv(SCALE, e.inv_mass)
Inertia(e) == FDiv(SCALE, e.inv_inertia)

RECURSIVE SumOver(_, _)
SumOver(f, n) == IF n = 0 THEN 0 ELSE FAdd(SumOver(f, n - 1), f[n])

TotalMass(ents) == SumOver([i \in 1..Len(ents) |-> Mass(ents[i])], Len(ents))

\* total linear momentum: sum of m * v
LinearMomentum(ents) ==
    <<SumOver([i \in 1..Len(ents) |-> FMul(Mass(ents[i]), ents[i].vel[1])], Len(ents)),
      SumOver([i \in 1..Len(ents) |-> FMul(Mass(ents[i]), ents[i].vel[2])], Len(ents))>>

CentreOfMass(ents) ==
    <<FDiv(SumOver([i \in 1..Len(ents) |-> FMul(Mass(ents[i]), ents[i].pos[1])], Len(ents)),
           TotalMass(ents)),
      FDiv(SumOver([i \in 1..Len(ents) |-> FMul(Mass(ents[i]), ents[i].pos[2])], Len(ents)),
           TotalMass(ents))>>

\* total angular momentum about the centre of mass: sum of I * omega + m * (x - c) x v
AngularMomentum(ents) ==
    SumOver([i \in 1..Len(ents) |->
                FAdd(FMul(Inertia(ents[i]), ents[i].omega),
                     FMul(Mass(ents[i]),
                          VCross(VSub(ents[i].pos, CentreOfMass(ents)), ents[i].vel)))],
            Len(ents))

\* impulses one contact receives in a step: the warm start, a normal and a
\* tangent impulse in every iteration, and the restitution impulse
ImpulsesPerContact == 2 * iterations + 2

\* the drift allowed to a total: the rounding of the totals themselves and one
\* grid unit for every impulse the contacts of the step can have applied
Drift(cs) == MomentumTolerance + Len(cs) * ImpulsesPerContact

Near(a, b, cs) == FLe(FAbs(FSub(a, b)), Drift(cs))

\* a world without gravity and generators whose bodies all have mass and inertia
Isolated ==
    /\ gravity = VZero
    /\ forces = <<>>
    /\ Len(entities) > 0
    /\ \A i \in 1..Len(entities) :
          FGt(entities[i].inv_mass, 0) /\ FGt(entities[i].inv_inertia, 0)

\* C17: momentum conservation: with zero gravity and no force generators every
\* solver impulse is equal and opposite on the two bodies and acts at one world
\* point, so at every stage of a step and when it returns the total linear
\* momentum and the total angular momentum about the centre of mass of the
\* dynamic bodies are those of step entry, up to the rounding of the impulses.
MomentumConserved ==
    (Isolated /\ pc # "idle" /\ FGt(dt, 0)) =>
        /\ Near(LinearMomentum(entities)[1], LinearMomentum(entry.entities)[1], constraints)
        /\ Near(LinearMomentum(entities)[2], LinearMomentum(entry.entities)[2], constraints)
        /\ Near(AngularMomentum(entities), AngularMomentum(entry.entities), constraints)

\* a step has returned in which a contact between two bodies of different mass
\* changed both velocities and a spin
MomentumConservedWitness ==
    /\ Isolated
    /\ pc = "done"
    /\ dt = 16
    /\ Len(entities) = 2
    /\ entities[1].inv_mass # entities[2].inv_mass
    /\ \E k \in 1..Len(constraints) : FGt(constraints[k].jn, 0)
    /\ entities[1].vel # entry.entities[1].vel
    /\ entities[2].vel # entry.entities[2].vel
    /\ \E i \in 1..2 : entities[i].omega # entry.entities[i].omega

---------------------------------------------------------------------------
(* Speculative contacts *)

\* the manifolds of the pair (i, j), 0-based
ManifoldsOf(i, j) == SelectSeq(manifolds, LAMBDA m : m.a = i /\ m.b = j)

\* squared distance from a circle's centre to a box, in the box's frame
BoxCircleDistSq(box, circle) ==
    LET delta_local == Mat2_mul_vec2(Mat2_transpose(Mat2_rotation(box.angle)),
                                     VSub(circle.pos, box.pos))
        h == box.collider.half_extents
        closest_local == Vec2(FClamp(delta_local[1], FNeg(h[1]), h[1]),
                              FClamp(delta_local[2], FNeg(h[2]), h[2]))
    IN  VLengthSquared(VSub(delta_local, closest_local))

\* the gate of the pair of bodies a, b: TRUE when a contact is to be returned
WithinSpeculativeRange(a, b) ==
    IF a.collider.tag = "Circle" /\ b.collider.tag = "Circle"
    THEN FLe(VLength(VSub(b.pos, a.pos)),
             FAdd(FAdd(a.collider.radius, b.collider.radius), SPECULATIVE_DISTANCE))
    ELSE IF a.collider.tag = "Box"
    THEN FLe(BoxCircleDistSq(a, b),
             FMul(FAdd(b.collider.radius, SPECULATIVE_DISTANCE),
                  FAdd(b.collider.radius, SPECULATIVE_DISTANCE)))
    ELSE FLe(BoxCircleDistSq(b, a),
             FMul(FAdd(a.collider.radius, SPECULATIVE_DISTANCE),
                  FAdd(a.collider.radius, SPECULATIVE_DISTANCE)))

\* C19: speculative gating in the narrow phase: circle/circle detection returns
\* no contact exactly when the centre distance L exceeds r_a + r_b + d_spec and
\* otherwise one contact with penetration r_a + r_b - L; box/circle detection
\* returns no contact exactly when the squared distance from the circle centre
\* to the box exceeds (r + d_spec)^2.
SpeculativeGating ==
    pc = "build" =>
        \A k \in 1..Len(pairs) :
            LET a == entities[pairs[k][1] + 1]
                b == entities[pairs[k][2] + 1]
                ms == ManifoldsOf(pairs[k][1], pairs[k][2])
            IN  (/\ HasCollider(a)
                 /\ HasCollider(b)
                 /\ (a.collider.tag = "Circle" \/ b.collider.tag = "Circle"))
                => /\ (ms # <<>>) <=> WithinSpeculativeRange(a, b)
                   /\ (ms # <<>> /\ a.collider.tag = "Circle" /\ b.collider.tag = "Circle")
                      => /\ Len(ms[1].points) = 1
                         /\ ms[1].points[1].penetration
                               = FSub(FAdd(a.collider.radius, b.collider.radius),
                                      VLength(VSub(b.pos, a.pos)))

---------------------------------------------------------------------------
(* Body factories *)

MaxBuiltBodies == 2

\* masses and sizes handed to the factories: negative, zero, positive, infinite
\* and not a number
FactoryMasses == {-1000, 0, 500, 1000, 3000, PosInf, NaN}
FactorySizes == {0, 600, 1000}

\* a body does not record the mass it was built from; each body is built at
\* x = its mass, so that the mass can be read off where it was placed
BuiltMass(i) == placed[i].pos[1]

BuiltBoxes ==
    {RigidBody_box_xy(Vec2(m, 0), 0, m, w, h) :
        m \in FactoryMasses, w \in FactorySizes, h \in FactorySizes}

BuiltCircles ==
    {RigidBody_circle(Vec2(m, 0), 0, m, r) : m \in FactoryMasses, r \in FactorySizes}

NextFactory ==
    \/ \E b \in BuiltBoxes : Add(b, MaxBuiltBodies)
    \/ \E b \in BuiltCircles : Add(b, MaxBuiltBodies)

SpecFactory == Init /\ [][NextFactory]_vars

\* C20: RigidBody::box_xy and RigidBody::circle give inv_mass = 1 / mass and
\* inv_inertia = 1 / I when mass > 0 (inv_inertia = 0 when the shape's inertia I
\* is not positive), and inv_mass = 0 and inv_inertia = 0 when mass <= 0, so a
\* body built with mass 0 is static.
FactoryMassProperties ==
    \A i \in 1..Len(entities) :
        /\ FGt(BuiltMass(i), 0) =>
              /\ entities[i].inv_mass = FDiv(SCALE, BuiltMass(i))
              /\ entities[i].inv_inertia
                    = IF FGt(Collider2D_inertia_about_center(entities[i].collider,
                                                            BuiltMass(i)), 0)
                      THEN FDiv(SCALE, Collider2D_inertia_about_center(
                                           entities[i].collider, BuiltMass(i)))
                      ELSE 0
        /\ FLe(BuiltMass(i), 0) =>
              /\ entities[i].inv_mass = 0
              /\ entities[i].inv_inertia = 0
              /\ IsStatic(entities[i])

\* a box of mass 0.5 with a positive inertia next to a circle built with a
\* mass of zero
FactoryMassPropertiesWitness ==
    /\ Len(entities) = 2
    /\ entities[1].collider.tag = "Box"
    /\ BuiltMass(1) = 500
    /\ entities[1].inv_mass = 2000
    /\ FGt(entities[1].inv_inertia, 0)
    /\ entities[2].collider.tag = "Circle"
    /\ entities[2].collider.radius > 0
    /\ BuiltMass(2) = 0
    /\ entities[2].inv_inertia = 0

---------------------------------------------------------------------------
(* Broad phase under a permutation of the body list *)

\* the one-to-one maps of 1..n onto itself
Orderings(n) == {p \in [1..n -> 1..n] : \A i \in 1..n, j \in 1..n : p[i] = p[j] => i = j}

\* the body list with the body of place p[k] moved to place k
Reordered(ents, p) == [k \in 1..Len(ents) |-> ents[p[k]]]

\* a pair of the reordered list named by the bodies' original indices, lower first
MappedBack(pair, p) ==
    IF p[pair[1] + 1] < p[pair[2] + 1]
    THEN <<p[pair[1] + 1] - 1, p[pair[2] + 1] - 1>>
    ELSE <<p[pair[2] + 1] - 1, p[pair[1] + 1] - 1>>

PairSetUnder(ents, p) == {MappedBack(pr, p) : pr \in Range(detect_sap(Reordered(ents, p)))}

\* C18: for every permutation of the body list, the pairs detect_sap returns
\* for the permuted list, mapped back through the permutation and put lower
\* index first, are the same set as the pairs it returned for the original list.
BroadPhaseOrderIndependent ==
    pc = "narrow" =>
        \A p \in Orderings(Len(entities)) : PairSetUnder(entities, p) = Range(pairs)

---------------------------------------------------------------------------
(* The stage functions called with lists of the caller's own: detect_sap,
   narrow_phase::detect, build_constraints and solve are public, and so is the
   solver's constraint list *)

MaxCallerBodies == 2
MaxCallerForces == 2
MaxCallerSteps == 1

\* an index that names no body of the explored worlds
Absent == 7

CallerBodies == {Ground, Ball}

\* a spring between body 0 and a body that is not there, and one to an anchor
CallerGenerators ==
    {Spring(EndEntity(0), EndEntity(Absent), 2000, 100, 1000),
     Spring(EndEntity(0), EndAnchor(Vec2(0, 3000)), 2000, 100, 1000)}

CallerPairs == {<<Absent, 0>>, <<1, 1>>}

CallerManifolds ==
    {Manifold_new(0, Absent, Vec2(0, SCALE), <<ContactPoint(Vec2(0, 500), 100)>>),
     Manifold_new(Absent, 0, Vec2(0, SCALE), <<ContactPoint(Vec2(0, 500), 100)>>)}

\* a constraint that carries impulses, is penetrating and was closing fast, so
\* that no pass returns before it looks up the pair
LoadedConstraint(index_a, index_b) ==
    [index_a |-> index_a, index_b |-> index_b, normal |-> Vec2(0, SCALE),
     tangent |-> VPerp(Vec2(0, SCALE)), local_anchor_a |-> Vec2(0, 500),
     local_anchor_b |-> Vec2(0, -500), base_separation |-> -100,
     normal_mass |-> 1000, tangent_mass |-> 1000, jn |-> 500, jt |-> 100,
     relative_velocity |-> -2000]

CallerConstraints ==
    {LoadedConstraint(0, Absent), LoadedConstraint(Absent, 1), LoadedConstraint(0, 0)}

\* the caller puts a candidate of its own in front of the pair list it hands
\* to narrow_phase::detect
OfferPair(p) ==
    /\ pc = "narrow"
    /\ \A q \in CallerPairs : q \notin Range(pairs)
    /\ pairs' = <<p>> \o pairs
    /\ UNCHANGED <<entities, forces, gravity, params, frames, integrator, manifolds, constraints, cache,
                   solver_dt, last_dt, delta_pos, delta_angle, pc, dt, iter, entry,
                   placed, prev, nsteps, nedits>>

\* the caller puts a manifold of its own in front of the list it hands to
\* build_constraints
OfferManifold(m) ==
    /\ pc = "build"
    /\ \A q \in CallerManifolds : q \notin Range(manifolds)
    /\ manifolds' = <<m>> \o manifolds
    /\ UNCHANGED <<entities, forces, gravity, params, frames, integrator, pairs, constraints, cache,
                   solver_dt, last_dt, delta_pos, delta_angle, pc, dt, iter, entry,
                   placed, prev, nsteps, nedits>>

\* the caller writes a constraint into solver.constraints before solve
PushConstraint(c) ==
    /\ pc = "warm"
    /\ \A q \in CallerConstraints : q \notin Range(constraints)
    /\ constraints' = <<c>> \o constraints
    /\ UNCHANGED <<entities, forces, gravity, params, frames, integrator, manifolds, pairs, cache,
                   solver_dt, last_dt, delta_pos, delta_angle, pc, dt, iter, entry,
                   placed, prev, nsteps, nedits>>

InitCaller == World_new(Vec2(0, -9810), "SemiImplicitEuler")

NextCaller ==
    \/ \E b \in CallerBodies : Add(b, MaxCallerBodies)
    \/ \E g \in CallerGenerators : AddForce(g, MaxCallerForces)
    \/ StepCall(16, MaxCallerSteps)
    \/ \E p \in CallerPairs : OfferPair(p)
    \/ \E m \in CallerManifolds : OfferManifold(m)
    \/ \E c \in CallerConstraints : PushConstraint(c)
    \/ StepPhases

SpecCaller == InitCaller /\ [][NextCaller]_vars

\* both indices of the pair name a body
PairInRange(p) == p[1] < Len(entities) /\ p[2] < Len(entities)

ManifoldInRange(m) == m.a < Len(entities) /\ m.b < Len(entities)

\* the constraint names two different bodies
Solvable(c) ==
    c.index_a # c.index_b /\ c.index_a < Len(entities) /\ c.index_b < Len(entities)

\* both ends of the generator are there
Attached(g) ==
    g.type = "Spring" => (~End_missing(g.a, entities) /\ ~End_missing(g.b, entities))

\* the solver pass of the stage pc over the constraint list cs: <<bodies, deltas>>
PassOver(cs) ==
    CASE pc = "warm" -> WarmStartAll(cs, 1, entities)
      [] pc = "normal" ->
            NormalPass(cs, 1, SolverState(entities, delta_pos, delta_angle),
                       solver_dt, params)[1].ents
      [] pc = "tangent" ->
            TangentPass(cs, 1, SolverState(entities, delta_pos, delta_angle),
                        solver_dt, params)[1].ents
      [] OTHER ->
            RestitutionPass(cs, 1, SolverState(entities, delta_pos, delta_angle),
                            solver_dt, params)[1].ents

SolverStages == {"warm", "normal", "tangent", "restitution"}

\* C15: out-of-range indices are skipped and the rest of the list is still
\* processed: narrow_phase::detect returns what it returns for the pairs that
\* name two bodies, build_constraints builds what it builds for the manifolds
\* that name two bodies, every solver pass leaves a constraint with an
\* out-of-range index or two equal indices as it is and moves the bodies as the
\* pass over the other constraints does (not at all when there is no other),
\* and the generators leave the forces that the attached generators leave.
OutOfRangeSkipped ==
    [][/\ (pc = "narrow" /\ pc' = "build") =>
             /\ manifolds' = narrow_phase_detect(entities, SelectSeq(pairs, PairInRange), 1)
             /\ \A k \in 1..Len(manifolds') :
                   manifolds'[k].a < Len(entities) /\ manifolds'[k].b < Len(entities)
       /\ (pc = "build" /\ pc' = "warm") =>
             /\ constraints' = NewConstraints(SelectSeq(manifolds, ManifoldInRange), 1,
                                              entities, cache', dt_ratio(dt, last_dt))
             /\ \A k \in 1..Len(constraints') :
                   /\ constraints'[k].index_a < Len(entities)
                   /\ constraints'[k].index_b < Len(entities)
       /\ (pc \in SolverStages /\ pc' # pc) =>
             /\ Len(constraints') = Len(constraints)
             /\ \A k \in 1..Len(constraints) :
                   ~Solvable(constraints[k]) => constraints'[k] = constraints[k]
             /\ entities' = PassOver(SelectSeq(constraints, Solvable))
             /\ (\A k \in 1..Len(constraints) : ~Solvable(constraints[k]))
                   => entities' = entities
       /\ (pc = "forces" /\ pc' = "velocity") =>
             /\ entities' = ApplyForces(SelectSeq(forces, Attached), 1, entities)
             /\ (\A k \in 1..Len(forces) : ~Attached(forces[k])) => entities' = entities
      ]_vars

\* a step of a ball on the ground about to integrate positions: the caller's
\* pair (1, 1) gave a manifold and a constraint of the ball with itself, the
\* caller's manifold with an absent body gave no constraint, the caller's
\* constraint with an absent body is as it was pushed, the contact of ground
\* and ball has been solved, and body 0 carries the pull of the spring to the
\* anchor on top of gravity although the spring to the absent body comes first
OutOfRangeSkippedWitness ==
    /\ pc = "position"
    /\ Len(entities) = 2
    /\ <<1, 1>> \in Range(pairs)
    /\ \E k \in 1..Len(manifolds) : manifolds[k].a = 1 /\ manifolds[k].b = 1
    /\ \E k \in 1..Len(manifolds) : manifolds[k] \in CallerManifolds
    /\ \E k \in 1..Len(constraints) :
          constraints[k].index_a = 1 /\ constraints[k].index_b = 1
    /\ constraints[1] = LoadedConstraint(0, Absent)
    /\ \E k \in 1..Len(constraints) :
          /\ constraints[k].index_a = 0
          /\ constraints[k].index_b = 1
          /\ FGt(constraints[k].jn, 0)
    /\ Len(forces) = 2
    /\ ~Attached(forces[1])
    /\ Attached(forces[2])
    /\ entities[1].force # GravityForce([entities[1] EXCEPT !.force = VZero], gravity).force

---------------------------------------------------------------------------
(* The bias velocity of the normal solves *)

\* the predicted separation solve_normal computes for c in the solver state st
SeparationIn(c, st) ==
    predicted_separation(c, st, world_arm(st.ents[c.index_a + 1], c.local_anchor_a),
                         world_arm(st.ents[c.index_b + 1], c.local_anchor_b))

\* <<separation, velocity_bias>> of every solve_normal of the pass over cs from
\* k on that reaches the bias, in the order of the pass
RECURSIVE BiasesOfPass(_, _, _, _)
BiasesOfPass(cs, k, st, h) ==
    IF k > Len(cs) THEN <<>>
    ELSE (IF get_pair_mut(st.ents, cs[k].index_a, cs[k].index_b)
          THEN <<<<SeparationIn(cs[k], st),
                   velocity_bias(SeparationIn(cs[k], st), h, params, TRUE)>>>>
          ELSE <<>>)
         \o BiasesOfPass(cs, k + 1, solve_normal(cs[k], st, h, params, TRUE)[1], h)

\* the biases of the normal pass that is about to run
BiasesNow ==
    BiasesOfPass(constraints, 1, SolverState(entities, delta_pos, delta_angle), solver_dt)

\* C22: the bias velocity of every normal solve lies in [-max_bias_velocity, 0];
\* it is 0 when the predicted penetration is at most slop and for every
\* separated contact, and it is never positive.
BiasOnlyCorrectsOverlap ==
    pc = "normal" =>
        \A k \in 1..Len(BiasesNow) :
            /\ FLe(BiasesNow[k][2], 0)
            /\ FGe(BiasesNow[k][2], FNeg(max_bias_velocity))
            /\ FGe(BiasesNow[k][1], FNeg(slop)) => BiasesNow[k][2] = 0

---------------------------------------------------------------------------
(* The restitution threshold *)

MaxBounceBodies == 2
MaxBounceSteps == 1

\* a circle at rest at the origin
Target == RigidBody_circle(Vec2(0, 0), 0, 1000, 500)

\* a circle overlapping the target by 0.125 that closes in on it at speed v
Striker(v) == WithVel(RigidBody_circle(Vec2(875, 0), 0, 1000, 500), Vec2(-v, 0), 0)

\* closing speeds below, at and above the restitution threshold of 1 m/s
BounceCatalogue == {Target, Striker(500), Striker(1000), Striker(2000)}

NextBounce ==
    \/ \E b \in BounceCatalogue : Add(b, MaxBounceBodies)
    \/ StepCall(16, MaxBounceSteps)
    \/ StepPhases

SpecBounce == Init /\ [][NextBounce]_vars

\* C23: the restitution pass changes a constraint's jn and its bodies'
\* velocities only when the relative normal velocity captured at build time is
\* strictly below -restitution_threshold; for rel_v0 >= -restitution_threshold,
\* equality included, the pass leaves the constraint and both bodies unchanged.
RestitutionOnlyBelowThreshold ==
    [][pc = "restitution" =>
          /\ Len(constraints') = Len(constraints)
          /\ \A k \in 1..Len(constraints) :
                FGe(constraints[k].relative_velocity, FNeg(restitution_threshold))
                   => constraints'[k] = constraints[k]
          /\ (\A k \in 1..Len(constraints) :
                 FGe(constraints[k].relative_velocity, FNeg(restitution_threshold)))
                => entities' = entities
      ]_vars

---------------------------------------------------------------------------
(* Two circles meeting head-on *)

MaxElasticSteps == 120

\* 1/240 s on the grid of 1/1000 s
ElasticStep == 4

\* the fraction of the speed the outcome may be off by: 2 %
ElasticTolerance == 20

LeftCircle == WithVel(RigidBody_circle(Vec2(-3000, 0), 0, 1000, 450), Vec2(6000, 0), 0)
RightCircle == WithVel(RigidBody_circle(Vec2(3000, 0), 0, 1000, 450), Vec2(-6000, 0), 0)

\* restitution 1 and friction 0, the rest as SolverParams::default
ElasticParams == [SolverParams_default EXCEPT !.restitution = SCALE, !.friction = 0]

InitElastic == World_new(Vec2(0, 0), "SemiImplicitEuler")

\* both circles are in the world and the parameters are set
ElasticSceneReady ==
    /\ params = ElasticParams
    /\ Len(entities) = 2
    /\ entities[1] # entities[2]

NextElastic ==
    \/ nsteps = 0 /\ SetParams(ElasticParams)
    \/ \E b \in {LeftCircle, RightCircle} : b \notin Range(entities) /\ Add(b, 2)
    \/ (ElasticSceneReady \/ nsteps > 0) /\ StepCall(ElasticStep, MaxElasticSteps)
    \/ StepPhases

SpecElastic == InitElastic /\ [][NextElastic]_vars

\* v is w within 2 % of the speed of w
WithinTolerance(v, w) ==
    /\ FAbs(FSub(v[1], w[1])) * SCALE <= ElasticTolerance * VLength(w)
    /\ FAbs(FSub(v[2], w[2])) * SCALE <= ElasticTolerance * VLength(w)

Approaching(i) == entities[i].vel = placed[i].vel

Exchanged(i) == WithinTolerance(entities[i].vel, VNeg(placed[i].vel))

---------------------------------------------------------------------------
(* Order of the passes inside ConstraintSolver::solve *)

\* the bodies after the warm-start impulses of the first n constraints
RECURSIVE WarmedUpTo(_)
WarmedUpTo(n) ==
    IF n = 0 THEN entities
    ELSE apply_warm_start(constraints[n], WarmedUpTo(n - 1))

\* one constraint handled by the pass of the given stage
HandledBy(stage, c, st) ==
    CASE stage = "normal" -> solve_normal(c, st, solver_dt, params, TRUE)
      [] stage = "tangent" -> solve_tangent(c, st, solver_dt, params.friction)
      [] stage = "restitution" ->
             apply_restitution(c, st, solver_dt, params.restitution,
                               params.restitution_threshold)

\* the solver state and the constraints after the pass of the given stage has
\* handled the first n constraints of the list, each on the state the one before left
RECURSIVE HandledUpTo(_, _)
HandledUpTo(stage, n) ==
    IF n = 0 THEN <<SolverState(entities, delta_pos, delta_angle), constraints>>
    ELSE LET before == HandledUpTo(stage, n - 1)
             r == HandledBy(stage, before[2][n], before[1])
         IN  <<r[1], [before[2] EXCEPT ![n] = r[2]]>>

\* the pass of the running stage has handled all constraints in list order
PassInListOrder ==
    \E r \in {HandledUpTo(pc, Len(constraints))} :
        /\ SolverState(entities', delta_pos', delta_angle') = r[1]
        /\ constraints' = r[2]

PositionsKept ==
    \A i \in 1..Len(entities) :
        /\ entities'[i].pos = entities[i].pos
        /\ entities'[i].angle = entities[i].angle

\* C24: in one solve the warm-start impulse of every constraint is applied before
\* any sweep; each of the `iterations` sweeps runs the normal pass over all
\* constraints in list order and only then the tangent pass over all constraints in
\* list order; the restitution pass runs once per constraint after the last sweep;
\* no stage of the solver moves a position or an angle.
SolverPassOrder ==
    [][/\ pc = "warm" =>
              /\ entities' = WarmedUpTo(Len(constraints))
              /\ constraints' = constraints
              /\ iter' = iterations
              /\ pc' = "normal"
       /\ pc = "normal" =>
              /\ PassInListOrder
              /\ iter' = iter
              /\ pc' = "tangent"
       /\ pc = "tangent" =>
              /\ PassInListOrder
              /\ iter' = iter - 1
              /\ pc' = (IF iter' > 0 THEN "normal" ELSE "restitution")
       /\ pc = "restitution" =>
              /\ iter = 0
              /\ PassInListOrder
              /\ pc' = "position"
       /\ pc \in SolverStages => PositionsKept]_vars

\* a solve with two constraints on one pair has run its sweeps: impulses were
\* inherited by the warm start, and both passes left an impulse
SolverPassOrderWitness ==
    /\ pc = "restitution"
    /\ iter = 0
    /\ Len(constraints) >= 2
    /\ \E k \in 1..Len(prev.constraints) : prev.constraints[k].jn # 0
    /\ \E k \in 1..Len(constraints) : constraints[k].jn # 0 /\ constraints[k].jt # 0
    /\ constraints[1].jn # constraints[2].jn

---------------------------------------------------------------------------
(* The two integrator variants *)

Integrators == {"ExplicitEuler", "SemiImplicitEuler"}

\* the bodies after the velocity stage of a world whose integrator is integ
VelocitiesIntegratedWith(integ) ==
    [i \in 1..Len(entities) |-> integrate_velocity(entities[i], dt, integ)]

\* C25: World::step gives the same result for both integrator variants: the
\* velocity stage, the one stage that is handed the integrator, leaves the same
\* bodies whichever variant the world holds, no stage changes the variant, and
\* positions move after velocities (see PositionsIntegratedLast).
IntegratorVariantsAgree ==
    [][/\ integrator' = integrator
       /\ pc = "velocity" =>
              \A integ \in Integrators : entities' = VelocitiesIntegratedWith(integ)]_vars

\* the velocity stage of a world built with ExplicitEuler has changed a velocity
IntegratorVariantsAgreeWitness ==
    /\ pc = "broad"
    /\ integrator = "ExplicitEuler"
    /\ \E i \in 1..Len(entities) : entities[i].vel # entry.entities[i].vel

---------------------------------------------------------------------------
(* Accumulators written by the caller *)

MaxPushedBodies == 2
MaxPushedSteps == 2
MaxPushedForces == 1
MaxPushedEdits == 1

\* a body whose force and torque accumulators the caller has written
Pushed(e) == [e EXCEPT !.force = Vec2(3000, -2000), !.torque = 1500]

PushedCatalogue == {Pushed(Ball), Pushed(Ground), Pushed(Mote), Spinner}

NextPushed ==
    \/ \E b \in PushedCatalogue : Add(b, MaxPushedBodies)
    \/ \E i \in 1..Len(entities) : nsteps > 0 /\ Edit(i, Pushed(entities[i]), MaxPushedEdits)
    \/ AddForce(LinearDrag(500), MaxPushedForces)
    \/ StepCall(16, MaxPushedSteps)
    \/ StepPhases

SpecPushed == Init /\ [][NextPushed]_vars

\* C26: force and torque accumulators do not carry over between steps: whatever
\* a caller wrote to a body before step(dt > 0), when the first force generator
\* runs each dynamic body's force is gravity times its mass 1 / inv_mass and its
\* torque is 0, and each static body's force and torque are 0.
AccumulatorsStartFresh ==
    pc = "forces" =>
        \A i \in 1..Len(entities) :
            /\ entities[i].torque = 0
            /\ FGt(entities[i].inv_mass, 0) =>
                   entities[i].force = VScale(gravity, FDiv(SCALE, entities[i].inv_mass))
            /\ entities[i].inv_mass = 0 => entities[i].force = VZero

\* the generators of a world with gravity are about to run on a dynamic and a
\* static body, both entered with a force and a torque written by the caller
AccumulatorsStartFreshWitness ==
    /\ pc = "forces"
    /\ gravity # VZero
    /\ Len(forces) = 1
    /\ Len(entities) = 2
    /\ \E i \in 1..2 : entities[i].inv_mass = 0
    /\ \E i \in 1..2 : entities[i].inv_mass > 0
    /\ \A i \in 1..2 : entry.entities[i].force = Vec2(3000, -2000)
    /\ \A i \in 1..2 : entry.entities[i].torque = 1500

---------------------------------------------------------------------------
(* Generators that use the world they are handed *)

MaxReentrantBodies == 1
MaxReentrantForces == 2
MaxReentrantSteps == 1

\* a caller's ForceGen whose apply calls world.add_force(g)
Registrar(g) == [type |-> "Registrar", adds |-> g]

\* a caller's ForceGen whose apply calls world.step(h)
Restepper(h) == [type |-> "Restepper", dt |-> h]

\* the list held by the innermost step call that has taken it
Top == frames[Len(frames)]

\* the innermost loop moves on to its next generator
Advanced == [frames EXCEPT ![Len(frames)].k = @ + 1]

\* (2b) let forces = core::mem::take(&mut self.forces)
TakeForces ==
    /\ pc = "forces"
    /\ frames' = Append(frames, [gens |-> forces, k |-> 1, dt |-> dt])
    /\ forces' = <<>>
    /\ pc' = "apply"
    /\ UNCHANGED <<entities, gravity, params, integrator, manifolds, pairs, constraints,
                   cache, solver_dt, last_dt, delta_pos, delta_angle, dt, iter, entry,
                   placed, prev, nsteps, nedits>>

\* f.apply(self) of a drag or a spring
ApplyBuiltIn ==
    /\ pc = "apply"
    /\ Top.k <= Len(Top.gens)
    /\ Top.gens[Top.k].type \in {"LinearDrag", "Spring"}
    /\ entities' = ForceGen_apply(Top.gens[Top.k], entities)
    /\ frames' = Advanced
    /\ pc' = "apply"
    /\ UNCHANGED <<forces, gravity, params, integrator, manifolds, pairs, constraints,
                   cache, solver_dt, last_dt, delta_pos, delta_angle, dt, iter, entry,
                   placed, prev, nsteps, nedits>>

\* f.apply(self) of a generator that calls add_force
ApplyRegistrar ==
    /\ pc = "apply"
    /\ Top.k <= Len(Top.gens)
    /\ Top.gens[Top.k].type = "Registrar"
    /\ forces' = Append(forces, Top.gens[Top.k].adds)
    /\ frames' = Advanced
    /\ pc' = "apply"
    /\ UNCHANGED <<entities, gravity, params, integrator, manifolds, pairs, constraints,
                   cache, solver_dt, last_dt, delta_pos, delta_angle, dt, iter, entry,
                   placed, prev, nsteps, nedits>>

\* f.apply(self) of a generator that calls step: the nested call starts
ApplyRestepper ==
    /\ pc = "apply"
    /\ Top.k <= Len(Top.gens)
    /\ Top.gens[Top.k].type = "Restepper"
    /\ dt' = Top.gens[Top.k].dt
    /\ pc' = IF FLe(dt', 0) THEN "done" ELSE "clear"
    /\ UNCHANGED <<entities, forces, gravity, params, frames, integrator, manifolds, pairs,
                   constraints, cache, solver_dt, last_dt, delta_pos, delta_angle, iter,
                   entry, placed, prev, nsteps, nedits>>

\* the nested call returns into the loop of the call that holds the generator
ReturnNested ==
    /\ pc = "done"
    /\ frames # <<>>
    /\ dt' = Top.dt
    /\ frames' = Advanced
    /\ pc' = "apply"
    /\ UNCHANGED <<entities, forces, gravity, params, integrator, manifolds, pairs,
                   constraints, cache, solver_dt, last_dt, delta_pos, delta_angle, iter,
                   entry, placed, prev, nsteps, nedits>>

\* a restore that keeps what was registered during the loop
RestoreForcesKeepingAdded ==
    /\ pc = "apply"
    /\ Top.k > Len(Top.gens)
    /\ forces' = Top.gens \o forces
    /\ frames' = SubSeq(frames, 1, Len(frames) - 1)
    /\ pc' = "velocity"
    /\ UNCHANGED <<entities, gravity, params, integrator, manifolds, pairs, constraints,
                   cache, solver_dt, last_dt, delta_pos, delta_angle, dt, iter, entry,
                   placed, prev, nsteps, nedits>>

\* self.forces = forces
RestoreForces ==
    /\ pc = "apply"
    /\ Top.k > Len(Top.gens)
    /\ forces' = Top.gens
    /\ frames' = SubSeq(frames, 1, Len(frames) - 1)
    /\ pc' = "velocity"
    /\ UNCHANGED <<entities, gravity, params, integrator, manifolds, pairs, constraints,
                   cache, solver_dt, last_dt, delta_pos, delta_angle, dt, iter, entry,
                   placed, prev, nsteps, nedits>>

ReentrantBodies == {Mote, Spinner}

ReentrantGenerators == {LinearDrag(500), Registrar(LinearDrag(250)), Restepper(16)}

NextReentrant ==
    \/ \E b \in ReentrantBodies : Add(b, MaxReentrantBodies)
    \/ \E g \in ReentrantGenerators : AddForce(g, MaxReentrantForces)
    \/ StepCall(16, MaxReentrantSteps)
    \/ ClearAccumulators
    \/ ApplyGravity
    \/ TakeForces
    \/ ApplyBuiltIn
    \/ ApplyRegistrar
    \/ ApplyRestepper
    \/ ReturnNested
    \/ RestoreForces
    \/ IntegrateVelocities
    \/ BroadPhase
    \/ NarrowPhase
    \/ build_constraints
    \/ SolveWarmStart
    \/ SolveNormalPass
    \/ SolveTangentPass
    \/ SolveRestitutionPass
    \/ IntegratePositions

SpecReentrant == Init /\ [][NextReentrant]_vars

\* the generators registered by the first n generators of a list
RECURSIVE RegisteredBy(_, _)
RegisteredBy(gens, n) ==
    IF n = 0 THEN <<>>
    ELSE IF gens[n].type = "Registrar"
         THEN Append(RegisteredBy(gens, n - 1), gens[n].adds)
         ELSE RegisteredBy(gens, n - 1)

StepReturned == pc = "done" /\ frames = <<>> /\ FGt(dt, 0)

NestedStepAtGenerators == pc = "forces" /\ frames # <<>>

\* C27 as stated: when step(dt > 0) returns, world.forces holds exactly the
\* generators it held at entry, in the same order, whatever the generators did
\* during apply, and a generator that calls step re-entrantly sees an empty
\* generator list, so the nested step runs no generator.
NestedStepSeesNoGenerator ==
    /\ StepReturned => forces = entry.forces
    /\ NestedStepAtGenerators => forces = <<>>

\* C27 as amended: when step(dt > 0) returns, world.forces holds exactly the
\* generators it held at entry, in the same order, and a generator that calls
\* step re-entrantly sees only the generators registered by add_force since the
\* enclosing step took its list (none if none was registered), so the nested
\* step runs none of the generators registered at entry.
GeneratorListRestored ==
    /\ StepReturned => forces = entry.forces
    /\ NestedStepAtGenerators => forces = RegisteredBy(Top.gens, Top.k - 1)

\* a step has returned whose first generator registered another one and whose
\* second called step
GeneratorListRestoredWitness ==
    /\ StepReturned
    /\ forces = <<Registrar(LinearDrag(250)), Restepper(16)>>
    /\ Len(entities) = 1

---------------------------------------------------------------------------
(* The solver driven by a caller that changes the body list before solve *)

MaxDirectBodies == 2
MaxDirectSteps == 2
MaxDirectEdits == 1

DirectBodies == {Ground, Ball, Ball2}

\* friction 0.5, none, and without limit
DirectParams ==
    {SolverParams_default,
     [SolverParams_default EXCEPT !.friction = 0],
     [SolverParams_default EXCEPT !.friction = PosInf]}

\* between build_constraints and solve the caller pushes a body
AddBeforeSolve(b) ==
    /\ pc = "warm"
    /\ nedits < MaxDirectEdits
    /\ nedits' = nedits + 1
    /\ entities' = Append(entities, b)
    /\ placed' = Append(placed, b)
    /\ UNCHANGED <<forces, gravity, params, frames, integrator, manifolds, pairs, constraints,
                   cache, solver_dt, last_dt, delta_pos, delta_angle, pc, dt, iter, entry,
                   prev, nsteps>>

\* between build_constraints and solve the caller pops the last body
RemoveBeforeSolve ==
    /\ pc = "warm"
    /\ nedits < MaxDirectEdits
    /\ entities # <<>>
    /\ nedits' = nedits + 1
    /\ entities' = SubSeq(entities, 1, Len(entities) - 1)
    /\ placed' = SubSeq(placed, 1, Len(placed) - 1)
    /\ UNCHANGED <<forces, gravity, params, frames, integrator, manifolds, pairs, constraints,
                   cache, solver_dt, last_dt, delta_pos, delta_angle, pc, dt, iter, entry,
                   prev, nsteps>>

NextDirect ==
    \/ \E p \in DirectParams : nsteps = 0 /\ SetParams(p)
    \/ \E b \in DirectBodies : Add(b, MaxDirectBodies)
    \/ StepCall(16, MaxDirectSteps)
    \/ \E b \in DirectBodies : AddBeforeSolve(b)
    \/ RemoveBeforeSolve
    \/ StepPhases

SpecDirect == Init /\ [][NextDirect]_vars

InSweeps == pc \in {"normal", "tangent", "restitution"}

\* the constraint's indices are positions of both delta arrays
DeltasIndexed(c) ==
    /\ c.index_a + 1 \in DOMAIN delta_pos
    /\ c.index_b + 1 \in DOMAIN delta_pos
    /\ c.index_a + 1 \in DOMAIN delta_angle
    /\ c.index_b + 1 \in DOMAIN delta_angle

\* the delta arrays have one entry per body while constraints are solved, and
\* every constraint that get_pair_mut lets through indexes inside them
DeltasInRange ==
    InSweeps =>
        /\ Len(delta_pos) = Len(entities)
        /\ Len(delta_angle) = Len(entities)
        /\ \A k \in 1..Len(constraints) :
              get_pair_mut(entities, constraints[k].index_a, constraints[k].index_b)
                  => DeltasIndexed(constraints[k])

\* C28: ConstraintSolver::solve never indexes out of range and never panics: for
\* any constraint list and any body count, also when bodies were added or removed
\* between build_constraints and solve, the predicted-delta arrays have one entry
\* per body before any constraint is solved, every delta access uses indices that
\* get_pair_mut has checked against the body count, and the tangent clamp is
\* always called with a lower bound not above its upper bound when friction >= 0.
SolveNeverPanics ==
    /\ DeltasInRange
    /\ FGe(params.friction, 0) => (pc # "panicked" /\ (pc = "tangent" => ~TangentPassPanics))

---------------------------------------------------------------------------
(* Bodies without a collider among bodies in contact *)

MaxBareBodies == 3
MaxBareSteps == 2

\* a particle inside the ball and the ground, falling
Speck == Particle_new(Vec2(0, 450), Vec2(0, -1000), 1000)

\* a RigidBody::new inside the ground, falling and spinning
Bare == WithVel(RigidBody_new(Vec2(100, 480), 0, 1000, 1000), Vec2(0, -1000), 500)

BareCatalogue == {Ground, Ball, Speck, Bare}

NextBare ==
    \/ \E b \in BareCatalogue : Add(b, MaxBareBodies)
    \/ StepCall(16, MaxBareSteps)
    \/ StepPhases

SpecBare == Init /\ [][NextBare]_vars

\* the body at index i (0-based) has a collider
Bodied(i) == HasCollider(entities[i + 1])

\* the transition leaves vel and omega of every body without a collider alone
ColliderlessKept ==
    \A i \in 1..Len(entities) :
        ~Bodied(i - 1) =>
            (entities'[i].vel = entities[i].vel /\ entities'[i].omega = entities[i].omega)

\* C29: a body without a collider (a Particle, or a RigidBody built with
\* RigidBody::new) never appears in a manifold or a constraint, even when the
\* broad phase pairs its placeholder bounding box with another body, so the
\* contact solver never changes its velocity.
ColliderlessUntouched ==
    /\ [](\A k \in 1..Len(manifolds) : Bodied(manifolds[k].a) /\ Bodied(manifolds[k].b))
    /\ [](\A k \in 1..Len(constraints) :
             Bodied(constraints[k].index_a) /\ Bodied(constraints[k].index_b))
    /\ [][(pc \in SolverStages) => ColliderlessKept]_vars

\* the sweeps of a step are over in which the broad phase paired a moving
\* body without a collider with another body, next to a contact that was solved
ColliderlessUntouchedWitness ==
    /\ pc = "position"
    /\ \E k \in 1..Len(pairs) :
          /\ ~Bodied(pairs[k][1]) \/ ~Bodied(pairs[k][2])
          /\ \E i \in {pairs[k][1], pairs[k][2]} :
                ~Bodied(i) /\ entities[i + 1].vel # VZero
    /\ \E k \in 1..Len(constraints) : constraints[k].jn # 0

---------------------------------------------------------------------------
(* Two contact points of one pair under one cache key *)

MaxLedgeBodies == 2
MaxLedgeSteps == 2
RoundingSlack == 2

\* a crate that overlaps the ground's top left corner by 0.02 x 0.01, so that
\* its two contact points lie 0.02 apart, inside one cell of the cache key
Ledge == RigidBody_box_xy(Vec2(-2480, 790), 0, 1000, 1000, 600)

LedgeCatalogue == {Ground, Ledge}
LedgeStepSizes == {16, 32}

NextLedge ==
    \/ \E b \in LedgeCatalogue : Add(b, MaxLedgeBodies)
    \/ \E h \in LedgeStepSizes : StepCall(h, MaxLedgeSteps)
    \/ StepPhases

SpecLedge == Init /\ [][NextLedge]_vars

\* the sum of jn over the first n constraints of the list that are of the pair
RECURSIVE JnSum(_, _, _)
JnSum(cs, n, pair) ==
    IF n = 0 THEN 0
    ELSE IF <<cs[n].index_a, cs[n].index_b>> = pair
         THEN FAdd(JnSum(cs, n - 1, pair), cs[n].jn)
         ELSE JnSum(cs, n - 1, pair)

PairsOf(cs) == {<<cs[k].index_a, cs[k].index_b>> : k \in 1..Len(cs)}

\* two constraints of the list have both taken the one cache entry of their key
InheritedTwice ==
    \E k \in 1..Len(constraints), l \in 1..Len(constraints) :
        /\ k < l
        /\ KeyOf(constraints[k]) = KeyOf(constraints[l])
        /\ KeyOf(constraints[k]) \in DOMAIN cache

\* C30: warm starting never multiplies impulse: each accumulated impulse of the
\* previous step is inherited by at most one constraint of the new step, so for
\* every body pair the sum of the warm-started jn over its new constraints is at
\* most (dt / last_dt) times the sum of jn over its constraints at the end of the
\* previous step, also when two contact points of one pair quantise to the same
\* cache key.
WarmStartNeverMultiplies ==
    pc = "warm" =>
        /\ ~InheritedTwice
        /\ \A p \in PairsOf(constraints) :
              FLe(JnSum(constraints, Len(constraints), p),
                  FAdd(FMul(JnSum(prev.constraints, Len(prev.constraints), p),
                            dt_ratio(dt, prev.last_dt)),
                       RoundingSlack))

=============================================================================
